---- MODULE Spec2Model ----
(***************************************************************************)
(* Model of the activity ingestion pipeline of fbg-strategic-planner:      *)
(*   - the batch commit handler      (src/server/routes/activities.ts)     *)
(*   - the focus area matcher        (src/server/db.ts, matchFocusArea)    *)
(*   - the review state of the AI assistant modal (src/unnamed/part_009)   *)
(* Strings that the code normalises are sequences of one-character         *)
(* strings, so that trimming and lower-casing are computed, not assumed.   *)
(***************************************************************************)
EXTENDS Integers, Sequences, FiniteSets, TLC

\* ------------------------------------------------------------------------
\* Bounds of the model
\* ------------------------------------------------------------------------
MaxBatchLen == 2
MaxFocusAreas == 2
MaxStaged == 2

\* ------------------------------------------------------------------------
\* Program constants
\* ------------------------------------------------------------------------
\* activities.ts:145  if (activities.length > 100)
MaxBatchSize == 100

\* db.ts:38  const CONFIDENCE_THRESHOLD = 0.8   (in thousandths)
ConfidenceThreshold == 800

\* db.ts:92  threshold: 0.4   (in thousandths)
FuseThreshold == 400

\* ------------------------------------------------------------------------
\* Strings
\* ------------------------------------------------------------------------
\* String.prototype.toLowerCase / SQL LOWER on the characters of the model
UpperChars ==
    <<"A", "B", "C", "D", "E", "F", "G", "H", "I", "J", "K", "L", "M",
      "N", "O", "P", "Q", "R", "S", "T", "U", "V", "W", "X", "Y", "Z">>
LowerChars ==
    <<"a", "b", "c", "d", "e", "f", "g", "h", "i", "j", "k", "l", "m",
      "n", "o", "p", "q", "r", "s", "t", "u", "v", "w", "x", "y", "z">>

LowerChar(c) ==
    IF \E k \in 1..26 : UpperChars[k] = c
    THEN LowerChars[CHOOSE k \in 1..26 : UpperChars[k] = c]
    ELSE c

Lower(s) == [k \in 1..Len(s) |-> LowerChar(s[k])]

\* White space as String.prototype.trim sees it (space, tab)
JsWhite == {" ", "\t"}

\* White space as SQL TRIM(title) sees it: TRIM removes spaces only
PgWhite == {" "}

RECURSIVE TrimLeft(_, _)
TrimLeft(s, white) ==
    IF s # <<>> /\ Head(s) \in white THEN TrimLeft(Tail(s), white) ELSE s

RECURSIVE TrimRight(_, _)
TrimRight(s, white) ==
    IF s # <<>> /\ s[Len(s)] \in white
    THEN TrimRight(SubSeq(s, 1, Len(s) - 1), white)
    ELSE s

\* String.prototype.trim
JsTrim(s) == TrimRight(TrimLeft(s, JsWhite), JsWhite)

\* SQL TRIM(s), i.e. TRIM(BOTH ' ' FROM s)
PgTrim(s) == TrimRight(TrimLeft(s, PgWhite), PgWhite)

\* ------------------------------------------------------------------------
\* Dates
\* ------------------------------------------------------------------------
\* SQL NULL in the DATE column start_date
NullDate == [y |-> 0, m |-> 0, d |-> 0]

\* The calendar dates the inputs use
KnownDates == {[y |-> 2026, m |-> 1, d |-> 15], [y |-> 2026, m |-> 3, d |-> 1]}

IsLeap(y) == (y % 4 = 0 /\ y % 100 # 0) \/ y % 400 = 0

DaysInMonth(y, m) ==
    IF m = 2 THEN (IF IsLeap(y) THEN 29 ELSE 28)
    ELSE IF m \in {4, 6, 9, 11} THEN 30 ELSE 31

PrevDay(dt) ==
    IF dt.d > 1 THEN [dt EXCEPT !.d = dt.d - 1]
    ELSE IF dt.m > 1 THEN [y |-> dt.y, m |-> dt.m - 1, d |-> DaysInMonth(dt.y, dt.m - 1)]
    ELSE [y |-> dt.y - 1, m |-> 12, d |-> 31]

Pad2(n) == IF n < 10 THEN "0" \o ToString(n) ELSE ToString(n)

\* YYYY-MM-DD, the part of toISOString() before 'T'
FormatDate(dt) == ToString(dt.y) \o "-" \o Pad2(dt.m) \o "-" \o Pad2(dt.d)

\* The cast of a YYYY-MM-DD parameter to DATE done by the INSERT
ParseDate(s) == CHOOSE dt \in KnownDates : FormatDate(dt) = s

\* node-postgres hands a DATE over as a JavaScript Date at midnight of the
\* server's local time zone; toISOString() prints that instant in UTC.
\* zone is the zone's offset from UTC in hours: local midnight is hour
\* 0 - zone of the same day in UTC, which lies in the day before when negative.
UtcDateOf(dt, zone) == IF 0 - zone < 0 THEN PrevDay(dt) ELSE dt

\* ------------------------------------------------------------------------
\* Candidates of a batch
\* ------------------------------------------------------------------------
\* title: a string, absent, or a value that is not a string (the number 5)
StrTitle(s) == [t |-> "str", s |-> s]
NoTitle == [t |-> "missing", s |-> <<>>]
NumTitle == [t |-> "num", s |-> <<"5">>]

\* a list entry that is an object; "" stands for an absent/null field
Cand(title, fa, date) ==
    [kind |-> "obj", title |-> title, focus_area_id |-> fa, start_date |-> date]

\* a list entry that is null
NullCand == [kind |-> "null", title |-> NoTitle, focus_area_id |-> "", start_date |-> ""]

D1 == FormatDate([y |-> 2026, m |-> 1, d |-> 15])
D2 == FormatDate([y |-> 2026, m |-> 3, d |-> 1])

Candidates ==
    { Cand(StrTitle(<<"a">>), "f1", ""),
      Cand(StrTitle(<<"A", " ">>), "f1", ""),
      Cand(StrTitle(<<"a", "\t">>), "f1", ""),
      Cand(StrTitle(<<"a">>), "f1", D1),
      Cand(StrTitle(<<"a">>), "f1", D2),
      Cand(NoTitle, "f1", ""),
      Cand(StrTitle(<<"a">>), "", ""),
      Cand(NumTitle, "f1", ""),
      NullCand }

\* JavaScript truthiness of activity.title and of a string field
TitleTruthy(title) == title.t = "num" \/ (title.t = "str" /\ title.s # <<>>)
Truthy(str) == str # ""

\* The text the INSERT stores for the title parameter
StoredTitle(title) == title.s

\* The row the INSERT adds for a candidate
NewRow(id, a) ==
    [id |-> id,
     title |-> StoredTitle(a.title),
     focus_area_id |-> a.focus_area_id,
     start_date |-> IF Truthy(a.start_date) THEN ParseDate(a.start_date) ELSE NullDate]

\* ------------------------------------------------------------------------
\* Duplicate keys (activities.ts 149-160 and 175-178)
\* ------------------------------------------------------------------------
\* row.start_date ? new Date(row.start_date).toISOString().split('T')[0] : 'null'
ExistingDateKey(date, zone) ==
    IF date # NullDate THEN FormatDate(UtcDateOf(date, zone)) ELSE "null"

\* SELECT LOWER(TRIM(title)) as title_normalized, focus_area_id, start_date
\* and the key `${title_normalized}|${focus_area_id}|${dateKey}` built of it
ExistingKey(row, zone) ==
    Lower(PgTrim(row.title))
        \o <<"|", row.focus_area_id, "|", ExistingDateKey(row.start_date, zone)>>

\* existingSet as built from the rows of the snapshot query
ExistingKeys(rows, zone) == {ExistingKey(row, zone) : row \in rows}

\* activity.start_date || 'null'
CandidateDateKey(a) == IF Truthy(a.start_date) THEN a.start_date ELSE "null"

\* activity.title.toLowerCase().trim(), then the same template
ActivityKey(a) ==
    JsTrim(Lower(a.title.s)) \o <<"|", a.focus_area_id, "|", CandidateDateKey(a)>>

\* the add to the key set left out
AddKeyForgotten(keys, key) == keys

\* existingSet.add(activityKey)
AddKey(keys, key) == keys \cup {key}

\* the ceiling compared one too high
TooLargeOffByOne(n) == n > MaxBatchSize + 1

\* activities.length > 100
TooLarge(n) == n > MaxBatchSize

\* the validation that looks at the title only
InvalidTitleOnly(a) == ~TitleTruthy(a.title)

\* !activity.focus_area_id || !activity.title
Invalid(a) == ~Truthy(a.focus_area_id) \/ ~TitleTruthy(a.title)

\* ------------------------------------------------------------------------
\* State
\* ------------------------------------------------------------------------
VARIABLES
    store,          \* table activities: set of rows
    nextId,         \* next primary key the table hands out
    tz,             \* UTC offset (hours) of the server's local time zone
    activities,     \* per request: req.body.activities
    skipDuplicates, \* per request: req.body.skipDuplicates
    pc,             \* per request: position of the handler
    idx,            \* per request: loop variable i
    existingSet,    \* per request: the duplicate key set
    created,        \* per request: created (index = the input it came from)
    failed,         \* per request: failed
    skipped,        \* per request: skipped
    response,       \* per request: what res.status(..).json(..) sent
    insertedId,     \* per request: result.rows[0].id of the last INSERT
    storeAtStart,   \* per request: the table as the snapshot query read it
    insertCalls,    \* per request: indexes an INSERT was issued for
    dbErrors        \* per request: indexes whose query threw (-1: snapshot)

batchVars ==
    <<store, nextId, tz, activities, skipDuplicates, pc, idx, existingSet,
      created, failed, skipped, response, insertedId, storeAtStart,
      insertCalls, dbErrors>>



VARIABLES
    mSuggested,     \* argument suggestedName
    mFocusAreas,    \* argument focusAreas
    mConceptId,     \* argument conceptId
    mFuse,          \* what fuse.search answered (or would have answered)
    mResult,        \* the MatchResult returned
    mpc             \* "call" before, "done" after matchFocusArea

matchVars == <<mSuggested, mFocusAreas, mConceptId, mFuse, mResult, mpc>>

VARIABLES
    generatedActivities, \* useState: the staged activities under review
    selectedIndexes,     \* useState: Set of the indexes ticked
    loading,             \* useState: a generation request is under way
    sent                 \* the toCreate list handleCreateActivities last posted

uiVars == <<generatedActivities, selectedIndexes, loading, sent>>

VARIABLES
    xRoute,         \* the extraction route called: "generate" or "excel"
    xReq,           \* the request: body fields, files, the configured key
    xPc,            \* position of the extraction handler
    xSheet,         \* what the structure detection of /parse-excel found
    xFocusAreas,    \* focusAreasResult.rows
    xPreprocessed,  \* preprocessed.activities
    xResponseText,  \* response.text of the model call
    xModelCalls,    \* number of generateContent calls issued
    xReply          \* what res.json / res.status(..).json(..) sent

extractVars ==
    <<xRoute, xReq, xPc, xSheet, xFocusAreas, xPreprocessed, xResponseText,
      xModelCalls, xReply>>

VARIABLES
    wDate,          \* argument date of getWeekNumber: local year, month, day
    wWeek,          \* what getWeekNumber returned for wDate
    wPrevWeek,      \* what it returned for the day before wDate
    wpc             \* "call" before, "done" after getWeekNumber

weekVars == <<wDate, wWeek, wPrevWeek, wpc>>

vars == <<batchVars, matchVars, uiVars, extractVars, weekVars>>

Reqs == {1, 2}

NoResponse == [status |-> 0, error |-> ""]

\* ------------------------------------------------------------------------
\* Inputs
\* ------------------------------------------------------------------------
BatchesUpTo(n) == UNION {[1..k -> Candidates] : k \in 0..n}

C_a == Cand(StrTitle(<<"a">>), "f1", "")
C_aD1 == Cand(StrTitle(<<"a">>), "f1", D1)

\* three-candidate batches: an item between two others
ScenarioBatches ==
    { <<C_a, C_a, C_aD1>>, <<C_a, C_aD1, C_a>>, <<C_a, NullCand, C_aD1>>,
      <<C_aD1, Cand(NoTitle, "f1", ""), C_a>>, <<C_a, Cand(NumTitle, "f1", ""), C_aD1>> }

\* a batch of exactly the ceiling, and one above it
FullBatch == [k \in 1..MaxBatchSize |-> C_a]
OversizeBatch == [k \in 1..(MaxBatchSize + 1) |-> C_a]

\* candidates an earlier commit can have stored
SeedCandidates == {c \in Candidates : c.kind = "obj" /\ ~Invalid(c) /\ c.title.t = "str"}

InitialStores == {{}} \cup {{NewRow(1, c)} : c \in SeedCandidates}

TimeZones == {-5, 0, 1}

\* ------------------------------------------------------------------------
\* POST /batch (activities.ts 137-238), one action per step between awaits
\* ------------------------------------------------------------------------
Activity(r) == activities[r][idx[r] + 1]

\* the key set read anew of the table at every check
KnownKeysRefreshed(r) == existingSet[r] \cup ExistingKeys(store, tz)

\* 180: the set existingSet.has(activityKey) looks the key up in
KnownKeys(r) == existingSet[r]

Err500 == [status |-> 500, error |-> "Failed to batch create activities"]

\* 141-143: !Array.isArray(activities) || activities.length === 0
RejectEmpty(r) ==
    /\ pc[r] = "start"
    /\ Len(activities[r]) = 0
    /\ response' = [response EXCEPT ![r] =
                        [status |-> 400, error |-> "activities array is required"]]
    /\ pc' = [pc EXCEPT ![r] = "done"]
    /\ UNCHANGED <<matchVars, uiVars, extractVars, weekVars>>
    /\ UNCHANGED <<store, nextId, tz, activities, skipDuplicates, idx, existingSet,
                   created, failed, skipped, insertedId, storeAtStart,
                   insertCalls, dbErrors>>

\* 145-147: the size ceiling
RejectTooLarge(r) ==
    /\ pc[r] = "start"
    /\ Len(activities[r]) # 0
    /\ TooLarge(Len(activities[r]))
    /\ response' = [response EXCEPT ![r] =
                        [status |-> 400, error |-> "Maximum 100 activities per batch"]]
    /\ pc' = [pc EXCEPT ![r] = "done"]
    /\ UNCHANGED <<matchVars, uiVars, extractVars, weekVars>>
    /\ UNCHANGED <<store, nextId, tz, activities, skipDuplicates, idx, existingSet,
                   created, failed, skipped, insertedId, storeAtStart,
                   insertCalls, dbErrors>>

\* 150-153: the snapshot query is issued
Accept(r) ==
    /\ pc[r] = "start"
    /\ Len(activities[r]) # 0
    /\ ~TooLarge(Len(activities[r]))
    /\ pc' = [pc EXCEPT ![r] = "snapshot"]
    /\ UNCHANGED <<matchVars, uiVars, extractVars, weekVars>>
    /\ UNCHANGED <<store, nextId, tz, activities, skipDuplicates, idx, existingSet,
                   created, failed, skipped, response, insertedId, storeAtStart,
                   insertCalls, dbErrors>>

\* 150-164: the snapshot query answers; existingSet and the three lists
Snapshot(r) ==
    /\ pc[r] = "snapshot"
    /\ existingSet' = [existingSet EXCEPT ![r] = ExistingKeys(store, tz)]
    /\ created' = [created EXCEPT ![r] = <<>>]
    /\ failed' = [failed EXCEPT ![r] = <<>>]
    /\ skipped' = [skipped EXCEPT ![r] = <<>>]
    /\ idx' = [idx EXCEPT ![r] = 0]
    /\ pc' = [pc EXCEPT ![r] = "loop"]
    /\ UNCHANGED <<matchVars, uiVars, extractVars, weekVars>>
    /\ storeAtStart' = [storeAtStart EXCEPT ![r] = store]
    /\ UNCHANGED <<store, nextId, tz, activities, skipDuplicates, response,
                   insertedId, insertCalls, dbErrors>>

\* 150 and 234-237: the snapshot query throws, the outer catch answers
SnapshotThrows(r) ==
    /\ pc[r] = "snapshot"
    /\ dbErrors' = [dbErrors EXCEPT ![r] = @ \cup {-1}]
    /\ response' = [response EXCEPT ![r] = Err500]
    /\ pc' = [pc EXCEPT ![r] = "done"]
    /\ UNCHANGED <<matchVars, uiVars, extractVars, weekVars>>
    /\ UNCHANGED <<store, nextId, tz, activities, skipDuplicates, idx, existingSet,
                   created, failed, skipped, insertedId, storeAtStart, insertCalls>>

\* 166-167 with activities[i] null: reading activity.focus_area_id throws a
\* TypeError outside the inner try; 234-237 answers for the whole batch
NullEntryAborts(r) ==
    /\ pc[r] = "loop"
    /\ idx[r] < Len(activities[r])
    /\ Activity(r).kind = "null"
    /\ response' = [response EXCEPT ![r] = Err500]
    /\ pc' = [pc EXCEPT ![r] = "done"]
    /\ UNCHANGED <<matchVars, uiVars, extractVars, weekVars>>
    /\ UNCHANGED <<store, nextId, tz, activities, skipDuplicates, idx, existingSet,
                   created, failed, skipped, insertedId, storeAtStart,
                   insertCalls, dbErrors>>

\* 169-172: validation of the candidate
ValidationFails(r) ==
    /\ pc[r] = "loop"
    /\ idx[r] < Len(activities[r])
    /\ Activity(r).kind = "obj"
    /\ Invalid(Activity(r))
    /\ failed' = [failed EXCEPT ![r] =
                    Append(@, [index |-> idx[r], error |-> "focus_area_id and title are required"])]
    /\ idx' = [idx EXCEPT ![r] = @ + 1]
    /\ UNCHANGED <<matchVars, uiVars, extractVars, weekVars>>
    /\ UNCHANGED <<store, nextId, tz, activities, skipDuplicates, pc, existingSet,
                   created, skipped, response, insertedId, storeAtStart,
                   insertCalls, dbErrors>>

\* 175-176 with a title that is not a string: activity.title.toLowerCase is
\* not a function, thrown outside the inner try; 234-237 answers
TitleNotStringAborts(r) ==
    /\ pc[r] = "loop"
    /\ idx[r] < Len(activities[r])
    /\ Activity(r).kind = "obj"
    /\ ~Invalid(Activity(r))
    /\ skipDuplicates[r]
    /\ Activity(r).title.t # "str"
    /\ response' = [response EXCEPT ![r] = Err500]
    /\ pc' = [pc EXCEPT ![r] = "done"]
    /\ UNCHANGED <<matchVars, uiVars, extractVars, weekVars>>
    /\ UNCHANGED <<store, nextId, tz, activities, skipDuplicates, idx, existingSet,
                   created, failed, skipped, insertedId, storeAtStart,
                   insertCalls, dbErrors>>

\* the skip without its continue: the candidate is recorded and inserted too
SkipDuplicateNoContinue(r) ==
    /\ pc[r] = "loop"
    /\ idx[r] < Len(activities[r])
    /\ Activity(r).kind = "obj"
    /\ ~Invalid(Activity(r))
    /\ skipDuplicates[r]
    /\ Activity(r).title.t = "str"
    /\ ActivityKey(Activity(r)) \in KnownKeys(r)
    /\ skipped' = [skipped EXCEPT ![r] =
                    Append(@, [index |-> idx[r], title |-> Activity(r).title.s])]
    /\ insertCalls' = [insertCalls EXCEPT ![r] = @ \cup {idx[r]}]
    /\ pc' = [pc EXCEPT ![r] = "insert"]
    /\ UNCHANGED <<matchVars, uiVars, extractVars, weekVars>>
    /\ UNCHANGED <<store, nextId, tz, activities, skipDuplicates, idx, existingSet,
                   created, failed, response, insertedId, storeAtStart,
                   dbErrors>>

\* 175-187: the key is in existingSet
SkipDuplicate(r) ==
    /\ pc[r] = "loop"
    /\ idx[r] < Len(activities[r])
    /\ Activity(r).kind = "obj"
    /\ ~Invalid(Activity(r))
    /\ skipDuplicates[r]
    /\ Activity(r).title.t = "str"
    /\ ActivityKey(Activity(r)) \in KnownKeys(r)
    /\ skipped' = [skipped EXCEPT ![r] =
                    Append(@, [index |-> idx[r], title |-> Activity(r).title.s])]
    /\ idx' = [idx EXCEPT ![r] = @ + 1]
    /\ UNCHANGED <<matchVars, uiVars, extractVars, weekVars>>
    /\ UNCHANGED <<store, nextId, tz, activities, skipDuplicates, pc, existingSet,
                   created, failed, response, insertedId, storeAtStart,
                   insertCalls, dbErrors>>

\* 175-214: the key is new (or duplicates are not checked); the key is added
\* and the INSERT is issued
IssueInsert(r) ==
    /\ pc[r] = "loop"
    /\ idx[r] < Len(activities[r])
    /\ Activity(r).kind = "obj"
    /\ ~Invalid(Activity(r))
    /\ IF skipDuplicates[r]
       THEN /\ Activity(r).title.t = "str"
            /\ ActivityKey(Activity(r)) \notin KnownKeys(r)
            /\ existingSet' = [existingSet EXCEPT ![r] = AddKey(@, ActivityKey(Activity(r)))]
       ELSE UNCHANGED existingSet
    /\ insertCalls' = [insertCalls EXCEPT ![r] = @ \cup {idx[r]}]
    /\ pc' = [pc EXCEPT ![r] = "insert"]
    /\ UNCHANGED <<matchVars, uiVars, extractVars, weekVars>>
    /\ UNCHANGED <<store, nextId, tz, activities, skipDuplicates, idx,
                   created, failed, skipped, response, insertedId, storeAtStart,
                   dbErrors>>

\* 194-214: the INSERT succeeds; 217 the follow-up SELECT is issued
InsertOk(r) ==
    /\ pc[r] = "insert"
    /\ store' = store \cup {NewRow(nextId, Activity(r))}
    /\ insertedId' = [insertedId EXCEPT ![r] = nextId]
    /\ nextId' = nextId + 1
    /\ pc' = [pc EXCEPT ![r] = "fetch"]
    /\ UNCHANGED <<matchVars, uiVars, extractVars, weekVars>>
    /\ UNCHANGED <<tz, activities, skipDuplicates, idx, existingSet,
                   created, failed, skipped, response, storeAtStart,
                   insertCalls, dbErrors>>

\* the catch that only logs
RecordFailureLost(r) ==
    /\ failed' = failed
    /\ dbErrors' = [dbErrors EXCEPT ![r] = @ \cup {idx[r]}]
    /\ idx' = [idx EXCEPT ![r] = @ + 1]
    /\ pc' = [pc EXCEPT ![r] = "loop"]

\* 227-230: the catch of the per-item try
RecordFailure(r) ==
    /\ failed' = [failed EXCEPT ![r] =
                    Append(@, [index |-> idx[r], error |-> "Database error"])]
    /\ dbErrors' = [dbErrors EXCEPT ![r] = @ \cup {idx[r]}]
    /\ idx' = [idx EXCEPT ![r] = @ + 1]
    /\ pc' = [pc EXCEPT ![r] = "loop"]

\* 194-214 and 227-230: the INSERT throws
InsertThrows(r) ==
    /\ pc[r] = "insert"
    /\ RecordFailure(r)
    /\ UNCHANGED <<matchVars, uiVars, extractVars, weekVars>>
    /\ UNCHANGED <<store, nextId, tz, activities, skipDuplicates, existingSet,
                   created, skipped, response, insertedId, storeAtStart,
                   insertCalls>>

\* 217-226: the SELECT with the joins finds the row
FetchOk(r) ==
    /\ pc[r] = "fetch"
    /\ \E row \in store : row.id = insertedId[r]
    /\ created' = [created EXCEPT ![r] =
                    Append(@, [index |-> idx[r], id |-> insertedId[r]])]
    /\ idx' = [idx EXCEPT ![r] = @ + 1]
    /\ pc' = [pc EXCEPT ![r] = "loop"]
    /\ UNCHANGED <<matchVars, uiVars, extractVars, weekVars>>
    /\ UNCHANGED <<store, nextId, tz, activities, skipDuplicates, existingSet,
                   failed, skipped, response, insertedId, storeAtStart,
                   insertCalls, dbErrors>>

\* 217-226: the joins find no row (the focus area has no concept):
\* fullActivity.rows[0] is undefined, written id 0, and is pushed
FetchEmpty(r) ==
    /\ pc[r] = "fetch"
    /\ created' = [created EXCEPT ![r] = Append(@, [index |-> idx[r], id |-> 0])]
    /\ idx' = [idx EXCEPT ![r] = @ + 1]
    /\ pc' = [pc EXCEPT ![r] = "loop"]
    /\ UNCHANGED <<matchVars, uiVars, extractVars, weekVars>>
    /\ UNCHANGED <<store, nextId, tz, activities, skipDuplicates, existingSet,
                   failed, skipped, response, insertedId, storeAtStart,
                   insertCalls, dbErrors>>

\* 217-230: the SELECT throws after the INSERT went through
FetchThrows(r) ==
    /\ pc[r] = "fetch"
    /\ RecordFailure(r)
    /\ UNCHANGED <<matchVars, uiVars, extractVars, weekVars>>
    /\ UNCHANGED <<store, nextId, tz, activities, skipDuplicates, existingSet,
                   created, skipped, response, insertedId, storeAtStart,
                   insertCalls>>

\* 233: the loop is over
Respond(r) ==
    /\ pc[r] = "loop"
    /\ idx[r] = Len(activities[r])
    /\ response' = [response EXCEPT ![r] = [status |-> 201, error |-> ""]]
    /\ pc' = [pc EXCEPT ![r] = "done"]
    /\ UNCHANGED <<matchVars, uiVars, extractVars, weekVars>>
    /\ UNCHANGED <<store, nextId, tz, activities, skipDuplicates, idx, existingSet,
                   created, failed, skipped, insertedId, storeAtStart,
                   insertCalls, dbErrors>>

\* ------------------------------------------------------------------------
\* matchFocusArea (db.ts 44-128)
\* ------------------------------------------------------------------------
\* a null focus_area_id, an undefined conceptId, an undefined review_reason
NoId == ""

\* !suggestedName: the empty string is falsy
IsBlankNoTrim(name) == name = <<>>

\* 49: !suggestedName || suggestedName.trim() === ''
IsBlank(name) == name = <<>> \/ JsTrim(name) = <<>>

\* the list handed on without the filter
AvailableUnfiltered(focusAreas, conceptId) == focusAreas

\* 60-62: conceptId ? focusAreas.filter(fa => fa.concept_id === conceptId) : focusAreas
Available(focusAreas, conceptId) ==
    IF conceptId # NoId
    THEN SelectSeq(focusAreas, LAMBDA fa : fa.concept_id = conceptId)
    ELSE focusAreas

\* the comparison without toLowerCase
NameEqualsCaseSensitive(a, b) == a = b

\* 76: fa.name.toLowerCase() === suggestedName.toLowerCase()
NameEquals(a, b) == Lower(a) = Lower(b)

\* 75-77: Array.prototype.find, 0 when nothing is found
ExactMatchIndex(available, name) ==
    IF \E k \in 1..Len(available) : NameEquals(available[k].name, name)
    THEN CHOOSE k \in 1..Len(available) :
            /\ NameEquals(available[k].name, name)
            /\ \A l \in 1..(k - 1) : ~NameEquals(available[l].name, name)
    ELSE 0

\* the scores (thousandths) the scorer of Fuse.js is let to give in a call
ScoreLevels == {0, 100, 200, 201, 400, 500}

\* 89-96: what fuse.search(suggestedName) can answer for the list: items of
\* the list with includeScore, each score within the threshold option, best
\* score first. The scorer itself is Fuse.js, not code of this repository.
FuseOutputs(available, levels) ==
    LET hit == {[item |-> available[k], score |-> sc] :
                    k \in 1..Len(available),
                    sc \in {x \in levels : x <= FuseThreshold}}
    IN  {<<>>} \cup {<<h>> : h \in hit}
        \cup {pair \in {<<h1, h2>> : h1 \in hit, h2 \in hit} :
                    pair[1].item # pair[2].item /\ pair[1].score <= pair[2].score}

\* whatever the scorer lets through is accepted
AutoAcceptAny(confidence) == confidence >= 1000 - FuseThreshold

\* the threshold compared strictly
AutoAcceptStrict(confidence) == confidence > ConfidenceThreshold

\* 112: confidence >= CONFIDENCE_THRESHOLD
AutoAccept(confidence) == confidence >= ConfidenceThreshold

\* 110: 1 - (bestMatch.score || 0), in thousandths
ConfidenceOf(score) == 1000 - score

\* 44-128; results is what fuse.search answers for the available list
MatchFocusArea(suggestedName, focusAreas, conceptId, results) ==
    LET available == Available(focusAreas, conceptId)
        exact == ExactMatchIndex(available, suggestedName)
    IN  IF IsBlank(suggestedName)
        THEN [focus_area_id |-> NoId, focus_area_name |-> suggestedName,
              confidence |-> 0, needs_review |-> TRUE,
              review_reason |-> "Inget fokusomrade angivet"]
        ELSE IF Len(available) = 0
        THEN [focus_area_id |-> NoId, focus_area_name |-> suggestedName,
              confidence |-> 0, needs_review |-> TRUE,
              review_reason |-> "Inga fokusomraden tillgangliga"]
        ELSE IF exact # 0
        THEN [focus_area_id |-> available[exact].id,
              focus_area_name |-> available[exact].name,
              confidence |-> 1000, needs_review |-> FALSE,
              review_reason |-> NoId]
        ELSE IF Len(results) = 0
        THEN [focus_area_id |-> NoId, focus_area_name |-> suggestedName,
              confidence |-> 0, needs_review |-> TRUE,
              review_reason |-> "Kunde inte matcha"]
        ELSE IF AutoAccept(ConfidenceOf(results[1].score))
        THEN [focus_area_id |-> results[1].item.id,
              focus_area_name |-> results[1].item.name,
              confidence |-> ConfidenceOf(results[1].score), needs_review |-> FALSE,
              review_reason |-> NoId]
        ELSE [focus_area_id |-> results[1].item.id,
              focus_area_name |-> results[1].item.name,
              confidence |-> ConfidenceOf(results[1].score), needs_review |-> TRUE,
              review_reason |-> "Osaker matchning"]

NoResult ==
    [focus_area_id |-> NoId, focus_area_name |-> <<>>, confidence |-> 0,
     needs_review |-> TRUE, review_reason |-> NoId]

\* names of focus areas (POST /:id/focus-areas takes any non-empty name) and
\* names a model suggests
FocusAreaNames == {<<"x">>, <<"X">>, <<"y">>, <<" ">>}
SuggestedNames == {<<>>, <<" ">>, <<"\t", " ">>, <<"x">>, <<"X">>, <<"x", "y">>}
ConceptIds == {"c1", "c2"}

\* lists of focus areas; the k-th row has id fk
FocusAreaId(k) == "f" \o ToString(k)

FocusAreaLists(n) ==
    UNION { { [k \in 1..len |->
                 [id |-> FocusAreaId(k), name |-> names[k], concept_id |-> concepts[k]]] :
              names \in [1..len -> FocusAreaNames], concepts \in [1..len -> ConceptIds] } :
            len \in 0..n }

MatchCall ==
    /\ mpc = "call"
    /\ \E results \in FuseOutputs(Available(mFocusAreas, mConceptId), ScoreLevels) :
          /\ mFuse' = results
          /\ mResult' = MatchFocusArea(mSuggested, mFocusAreas, mConceptId, results)
    /\ mpc' = "done"
    /\ UNCHANGED <<batchVars, uiVars, extractVars, weekVars>>
    /\ UNCHANGED <<mSuggested, mFocusAreas, mConceptId>>

MatchInputs ==
    /\ mSuggested \in SuggestedNames
    /\ mFocusAreas \in FocusAreaLists(MaxFocusAreas)
    /\ mConceptId \in {NoId} \cup ConceptIds
    /\ mFuse = <<>>
    /\ mResult = NoResult
    /\ mpc = "call"

MatchIdle ==
    /\ mSuggested = <<>>
    /\ mFocusAreas = <<>>
    /\ mConceptId = NoId
    /\ mFuse = <<>>
    /\ mResult = NoResult
    /\ mpc = "idle"

\* ------------------------------------------------------------------------
\* Review state of the AI assistant modal (part_009 135-784)
\* ------------------------------------------------------------------------
\* props focusAreas and conceptId of the modal
UiFocusAreas ==
    << [id |-> "f1", name |-> <<"x">>, concept_id |-> "c1"],
       [id |-> "f2", name |-> <<"y">>, concept_id |-> "c1"] >>

UiConceptId == "c1"

\* part_006 424-444: the staged activity the server builds of a match
Staged(match) ==
    [title |-> <<"a">>,
     matched_focus_area_id |-> match.focus_area_id,
     matched_focus_area_name |-> match.focus_area_name,
     confidence |-> match.confidence,
     needs_review |-> match.needs_review,
     review_reason |-> match.review_reason,
     start_date |-> ""]

\* what matchFocusArea can answer for the suggestions of one response
ServerMatches ==
    {MatchFocusArea(name, UiFocusAreas, UiConceptId, results) :
        name \in {<<>>, <<"x">>, <<"x", "y">>},
        results \in FuseOutputs(Available(UiFocusAreas, UiConceptId), {100, 400})}

\* result.activities of aiApi.generateActivities / aiApi.parseExcel
GenerateResults(n) == UNION {[1..k -> {Staged(m) : m \in ServerMatches}] : k \in 0..n}

\* 284-289 and 312-317: auto-select what needs no review
AutoSelect(list) ==
    {k - 1 : k \in {l \in 1..Len(list) :
                        ~list[l].needs_review /\ list[l].matched_focus_area_id # NoId}}

\* 628: the review list is rendered
ReviewShown == Len(generatedActivities) > 0 /\ ~loading

\* 267-272 and 295-306: handleGenerateFromText / handleFileUpload up to the await
GenerateStart ==
    /\ Len(generatedActivities) = 0 /\ ~loading
    /\ loading' = TRUE
    /\ generatedActivities' = <<>>
    /\ selectedIndexes' = {}
    /\ UNCHANGED sent
    /\ UNCHANGED <<batchVars, matchVars, extractVars, weekVars>>

\* 282-290 and 310-318, then finally: the answer arrives
GenerateDone ==
    /\ loading
    /\ \E result \in GenerateResults(MaxStaged) :
          /\ generatedActivities' = result
          /\ selectedIndexes' = AutoSelect(result)
    /\ loading' = FALSE
    /\ UNCHANGED sent
    /\ UNCHANGED <<batchVars, matchVars, extractVars, weekVars>>

\* 291-296 and 319-327: the request fails
GenerateFails ==
    /\ loading
    /\ loading' = FALSE
    /\ UNCHANGED <<generatedActivities, selectedIndexes, sent>>
    /\ UNCHANGED <<batchVars, matchVars, extractVars, weekVars>>

\* the toggle without the check of the focus area
ToggleSelectionUnchecked(index) ==
    /\ ReviewShown
    /\ index \in 0..(Len(generatedActivities) - 1)
    /\ selectedIndexes' =
          IF index \in selectedIndexes
          THEN selectedIndexes \ {index}
          ELSE selectedIndexes \cup {index}
    /\ UNCHANGED <<generatedActivities, loading, sent>>
    /\ UNCHANGED <<batchVars, matchVars, extractVars, weekVars>>

\* 331-342
ToggleSelection(index) ==
    /\ ReviewShown
    /\ index \in 0..(Len(generatedActivities) - 1)
    /\ selectedIndexes' =
          IF index \in selectedIndexes
          THEN selectedIndexes \ {index}
          ELSE IF generatedActivities[index + 1].matched_focus_area_id # NoId
               THEN selectedIndexes \cup {index}
               ELSE selectedIndexes
    /\ UNCHANGED <<generatedActivities, loading, sent>>
    /\ UNCHANGED <<batchVars, matchVars, extractVars, weekVars>>

\* 344-352
SelectAll ==
    /\ ReviewShown
    /\ selectedIndexes' =
          {k - 1 : k \in {l \in 1..Len(generatedActivities) :
                              generatedActivities[l].matched_focus_area_id # NoId}}
    /\ UNCHANGED <<generatedActivities, loading, sent>>
    /\ UNCHANGED <<batchVars, matchVars, extractVars, weekVars>>

\* 354-356
DeselectAll ==
    /\ ReviewShown
    /\ selectedIndexes' = {}
    /\ UNCHANGED <<generatedActivities, loading, sent>>
    /\ UNCHANGED <<batchVars, matchVars, extractVars, weekVars>>

\* 358-372; the select (739-750) is rendered for an activity that needs
\* review and offers "" besides the focus areas
UpdateFocusArea(index, focusAreaId) ==
    /\ ReviewShown
    /\ index \in 0..(Len(generatedActivities) - 1)
    /\ generatedActivities[index + 1].needs_review
    /\ IF \E k \in 1..Len(UiFocusAreas) : UiFocusAreas[k].id = focusAreaId
       THEN LET fa == UiFocusAreas[CHOOSE k \in 1..Len(UiFocusAreas) :
                                        UiFocusAreas[k].id = focusAreaId]
            IN  generatedActivities' =
                    [generatedActivities EXCEPT ![index + 1] =
                        [@ EXCEPT !.matched_focus_area_id = focusAreaId,
                                  !.matched_focus_area_name = fa.name,
                                  !.needs_review = FALSE,
                                  !.review_reason = NoId,
                                  !.confidence = 1000]]
       ELSE UNCHANGED generatedActivities
    /\ UNCHANGED <<selectedIndexes, loading, sent>>
    /\ UNCHANGED <<batchVars, matchVars, extractVars, weekVars>>

\* 374-388: toCreate
ToCreate ==
    LET picked == SelectSeq([k \in 1..Len(generatedActivities) |->
                                [pos |-> k - 1, a |-> generatedActivities[k]]],
                            LAMBDA e : e.pos \in selectedIndexes)
    IN  [k \in 1..Len(picked) |->
            Cand(StrTitle(picked[k].a.title), picked[k].a.matched_focus_area_id,
                 picked[k].a.start_date)]

\* 374-396: handleCreateActivities up to activitiesApi.batchCreate(toCreate)
HandleCreateActivities ==
    /\ Len(generatedActivities) > 0
    /\ Len(ToCreate) # 0
    /\ sent' = ToCreate
    /\ UNCHANGED <<generatedActivities, selectedIndexes, loading>>
    /\ UNCHANGED <<batchVars, matchVars, extractVars, weekVars>>

\* 670-674 (Tillbaka) and 434-437 (handleClose)
Back ==
    /\ Len(generatedActivities) > 0
    /\ generatedActivities' = <<>>
    /\ selectedIndexes' = {}
    /\ UNCHANGED <<loading, sent>>
    /\ UNCHANGED <<batchVars, matchVars, extractVars, weekVars>>

UiIdle ==
    /\ generatedActivities = <<>>
    /\ selectedIndexes = {}
    /\ loading = FALSE
    /\ sent = <<>>

\* ------------------------------------------------------------------------
\* Cells of the sheet, as XLSX.utils.sheet_to_json(sheet, {header: 1})
\* hands them over (part_006 477-480)
\* ------------------------------------------------------------------------
\* a hole of the row array, a null, a string (its characters), a number
\* (a non-negative number of tenths: 155 is the number 15.5)
Undef == [t |-> "undefined", s |-> <<>>, n |-> 0]
Null == [t |-> "null", s |-> <<>>, n |-> 0]
S(chars) == [t |-> "str", s |-> chars, n |-> 0]
N(tenths) == [t |-> "num", s |-> <<>>, n |-> tenths]

\* row[c], c counted from 0
At(row, c) == IF c + 1 \in 1..Len(row) THEN row[c + 1] ELSE Undef

DigitChars == <<"0", "1", "2", "3", "4", "5", "6", "7", "8", "9">>

IsDigit(c) == \E k \in 1..10 : DigitChars[k] = c

DigitValue(c) == (CHOOSE k \in 1..10 : DigitChars[k] = c) - 1

RECURSIVE NatChars(_)
NatChars(n) ==
    IF n < 10 THEN <<DigitChars[n + 1]>>
    ELSE NatChars(n \div 10) \o <<DigitChars[(n % 10) + 1]>>

\* String(value)
Str(cell) ==
    CASE cell.t = "str" -> cell.s
      [] cell.t = "num" ->
            IF cell.n % 10 = 0 THEN NatChars(cell.n \div 10)
            ELSE NatChars(cell.n \div 10) \o <<".", DigitChars[(cell.n % 10) + 1]>>
      [] cell.t = "null" -> <<"n", "u", "l", "l">>
      [] OTHER -> <<"u", "n", "d", "e", "f", "i", "n", "e", "d">>

\* parseInt(text): white space and a sign are passed over, the digits that
\* follow are read, the rest is ignored; NaN when no digit follows
RECURSIVE ReadDigits(_, _, _)
ReadDigits(s, acc, any) ==
    IF s # <<>> /\ IsDigit(Head(s))
    THEN ReadDigits(Tail(s), 10 * acc + DigitValue(Head(s)), TRUE)
    ELSE [nan |-> ~any, n |-> acc]

ParseInt(s) ==
    LET t == TrimLeft(s, JsWhite)
        signed == t # <<>> /\ Head(t) \in {"-", "+"}
        r == ReadDigits(IF signed THEN Tail(t) ELSE t, 0, FALSE)
    IN IF signed /\ Head(t) = "-" THEN [r EXCEPT !.n = 0 - r.n] ELSE r

\* value !== undefined && value !== null && value !== ''
Filled(cell) == cell.t \notin {"undefined", "null"} /\ cell # S(<<>>)

\* JavaScript truthiness of a cell
CellTruthy(cell) ==
    (cell.t = "str" /\ cell.s # <<>>) \/ (cell.t = "num" /\ cell.n # 0)

\* part_006 10-23: SWEDISH_MONTHS[name], 0 for undefined
SWEDISH_MONTHS ==
    { <<<<"j", "a", "n", "u", "a", "r", "i">>, 1>>, <<<<"j", "a", "n">>, 1>>,
      <<<<"f", "e", "b", "r", "u", "a", "r", "i">>, 2>>, <<<<"f", "e", "b">>, 2>>,
      <<<<"m", "a", "r", "s">>, 3>>, <<<<"m", "a", "r">>, 3>>,
      <<<<"a", "p", "r", "i", "l">>, 4>>, <<<<"a", "p", "r">>, 4>>,
      <<<<"m", "a", "j">>, 5>>,
      <<<<"j", "u", "n", "i">>, 6>>, <<<<"j", "u", "n">>, 6>>,
      <<<<"j", "u", "l", "i">>, 7>>, <<<<"j", "u", "l">>, 7>>,
      <<<<"a", "u", "g", "u", "s", "t", "i">>, 8>>, <<<<"a", "u", "g">>, 8>>,
      <<<<"s", "e", "p", "t", "e", "m", "b", "e", "r">>, 9>>, <<<<"s", "e", "p">>, 9>>,
      <<<<"o", "k", "t", "o", "b", "e", "r">>, 10>>, <<<<"o", "k", "t">>, 10>>,
      <<<<"n", "o", "v", "e", "m", "b", "e", "r">>, 11>>, <<<<"n", "o", "v">>, 11>>,
      <<<<"d", "e", "c", "e", "m", "b", "e", "r">>, 12>>, <<<<"d", "e", "c">>, 12>> }

MonthNumber(name) ==
    IF \E e \in SWEDISH_MONTHS : e[1] = name
    THEN (CHOOSE e \in SWEDISH_MONTHS : e[1] = name)[2]
    ELSE 0

\* SWEDISH_MONTHS[text.toLowerCase().trim()]
MonthOf(text) == MonthNumber(JsTrim(Lower(text)))

\* ------------------------------------------------------------------------
\* Structure detection of POST /parse-excel (part_006 486-574)
\* ------------------------------------------------------------------------
\* part_006:574  data.slice(dataStartRow, dataStartRow + 100)
MaxRows == 100

\* part_006:482  if (data.length < 4)
MinSheetRows == 4

\* part_006:495  Math.min(3, data.length)
YearScanRows == 3

\* the scan window one row longer
MonthScanRowsWide == 5 + 1

\* part_006:517  Math.min(5, data.length)
MonthScanRows == 5

Min(a, b) == IF a < b THEN a ELSE b
Max(a, b) == IF a > b THEN a ELSE b

\* String(cell).match(/20\d{2}/): the number matched, 0 for no match
RECURSIVE YearMatch(_)
YearMatch(s) ==
    IF Len(s) < 4 THEN 0
    ELSE IF s[1] = "2" /\ s[2] = "0" /\ IsDigit(s[3]) /\ IsDigit(s[4])
         THEN 2000 + 10 * DigitValue(s[3]) + DigitValue(s[4])
         ELSE YearMatch(Tail(s))

\* 497-506: the first cell of the row that is truthy and matches
RECURSIVE YearOfRow(_)
YearOfRow(row) ==
    IF row = <<>> THEN 0
    ELSE IF CellTruthy(Head(row)) /\ YearMatch(Str(Head(row))) # 0
         THEN YearMatch(Str(Head(row)))
         ELSE YearOfRow(Tail(row))

\* 495-508: detectedYear, 0 for null
RECURSIVE DetectYearFrom(_, _)
DetectYearFrom(data, i) ==
    IF i >= Min(YearScanRows, Len(data)) THEN 0
    ELSE IF YearOfRow(data[i + 1]) # 0 THEN YearOfRow(data[i + 1])
         ELSE DetectYearFrom(data, i + 1)

\* 511: detectedYear || year
EffectiveYear(data, year) ==
    IF DetectYearFrom(data, 0) # 0 THEN DetectYearFrom(data, 0) ELSE year

\* 519-521: row.some(cell => typeof cell === 'string' && SWEDISH_MONTHS[..])
HasMonth(row) == \E c \in 1..Len(row) : row[c].t = "str" /\ MonthOf(row[c].s) # 0

\* 517-539: the index of the month header row, -1 when the scan finds none
RECURSIVE MonthRowFrom(_, _)
MonthRowFrom(data, i) ==
    IF i >= Min(MonthScanRows, Len(data)) THEN -1
    ELSE IF HasMonth(data[i + 1]) THEN i
         ELSE MonthRowFrom(data, i + 1)

\* 527-535: the info headers of the month header row, from column c on
RECURSIVE InfoHeadersFrom(_, _)
InfoHeadersFrom(row, c) ==
    IF c >= Len(row) THEN <<>>
    ELSE LET cell == row[c + 1]
         IN IF cell.t = "str" /\ JsTrim(cell.s) # <<>> /\ MonthOf(cell.s) = 0
            THEN <<[col |-> c, name |-> JsTrim(cell.s)]>> \o InfoHeadersFrom(row, c + 1)
            ELSE IF MonthOf(IF CellTruthy(cell) THEN Str(cell) ELSE <<>>) # 0
                 THEN <<>>
                 ELSE InfoHeadersFrom(row, c + 1)

\* the week accepted up to 53
WeekInRangeUpTo53(week) == ~week.nan /\ week.n >= 1 /\ week.n <= 53

\* 564: !isNaN(week) && week >= 1 && week <= 52
WeekInRange(week) == ~week.nan /\ week.n >= 1 /\ week.n <= 52

\* 545-568: calendarColumns in insertion order, from column c on
RECURSIVE CalendarColumnsFrom(_, _, _, _)
CalendarColumnsFrom(monthHeaderRow, weekHeaderRow, c, currentMonth) ==
    IF c >= Max(Len(monthHeaderRow), Len(weekHeaderRow)) THEN <<>>
    ELSE LET monthCell == At(monthHeaderRow, c)
             weekCell == At(weekHeaderRow, c)
             monthNum == IF monthCell.t = "str" /\ monthCell.s # <<>>
                         THEN MonthOf(monthCell.s) ELSE 0
             month == IF monthNum # 0 THEN monthNum ELSE currentMonth
             week == ParseInt(Str(weekCell))
         IN (IF /\ weekCell.t \notin {"undefined", "null"}
                /\ month > 0
                /\ WeekInRange(week)
             THEN <<[col |-> c, month |-> month, week |-> week.n]>>
             ELSE <<>>)
            \o CalendarColumnsFrom(monthHeaderRow, weekHeaderRow, c + 1, month)

\* what the detection leaves for the rest of the handler
NoSheet ==
    [dataStartRow |-> 0, infoHeaders |-> <<>>, calendarColumns |-> <<>>,
     effectiveYear |-> 0, rows |-> <<>>]

Structure(data, year) ==
    LET i == MonthRowFrom(data, 0)
        monthHeaderRow == data[i + 1]
        weekHeaderRow == IF i + 2 <= Len(data) THEN data[i + 2] ELSE <<>>
        dataStartRow == i + 2
    IN [dataStartRow |-> dataStartRow,
        infoHeaders |-> InfoHeadersFrom(monthHeaderRow, 0),
        calendarColumns |-> CalendarColumnsFrom(monthHeaderRow, weekHeaderRow, 0, 0),
        effectiveYear |-> EffectiveYear(data, year),
        rows |-> SubSeq(data, dataStartRow + 1, Min(Len(data), dataStartRow + MaxRows))]

\* ------------------------------------------------------------------------
\* preprocessCalendarExcelV2 (part_006 26-105)
\* ------------------------------------------------------------------------
\* rowData[key] = value on a Record kept as its entries in insertion order
RECURSIVE Put(_, _, _)
Put(rowData, key, value) ==
    IF rowData = <<>> THEN <<[key |-> key, value |-> value]>>
    ELSE IF Head(rowData).key = key
         THEN <<[key |-> key, value |-> value]>> \o Tail(rowData)
         ELSE <<Head(rowData)>> \o Put(Tail(rowData), key, value)

\* 48-57: rowData of the info columns, from header k on
RECURSIVE InfoData(_, _, _)
InfoData(row, infoHeaders, k) ==
    IF k = 0 THEN <<>>
    ELSE IF Filled(At(row, infoHeaders[k].col))
         THEN Put(InfoData(row, infoHeaders, k - 1),
                  infoHeaders[k].name, At(row, infoHeaders[k].col))
         ELSE InfoData(row, infoHeaders, k - 1)

\* 49-57: filledInfoColumns
FilledInfoColumns(row, infoHeaders) ==
    Cardinality({k \in 1..Len(infoHeaders) : Filled(At(row, infoHeaders[k].col))})

\* the day accepted up to 30
DayInRangeShort(day) == ~day.nan /\ day.n >= 1 /\ day.n <= 30

\* 70: !isNaN(day) && day >= 1 && day <= 31
DayInRange(day) == ~day.nan /\ day.n >= 1 /\ day.n <= 31

\* 71: `${year}-${String(month).padStart(2, '0')}-${String(day).padStart(2, '0')}`
DateStr(year, month, day) == ToString(year) \o "-" \o Pad2(month) \o "-" \o Pad2(day)

\* 63-75: dates of the row, from calendar column k on
RECURSIVE DatesOf(_, _, _, _)
DatesOf(row, calendarColumns, year, k) ==
    IF k > Len(calendarColumns) THEN <<>>
    ELSE LET colInfo == calendarColumns[k]
             cellValue == At(row, colInfo.col)
             day == ParseInt(Str(cellValue))
         IN (IF Filled(cellValue) /\ DayInRange(day)
             THEN <<[date |-> DateStr(year, colInfo.month, day.n), week |-> colInfo.week]>>
             ELSE <<>>)
            \o DatesOf(row, calendarColumns, year, k + 1)

\* currentSection: null, or a text
NoSection == [text |-> FALSE, s |-> <<>>]
Section(chars) == [text |-> TRUE, s |-> chars]

\* 78: hasFirstCell && filledInfoColumns <= 1 && dates.length === 0
IsSectionHeader(hasFirstCell, filledInfoColumns, dates) ==
    hasFirstCell /\ filledInfoColumns <= 1 /\ Len(dates) = 0

\* 85: !hasFirstCell && filledInfoColumns === 0 && dates.length === 0
IsEmptyRow(hasFirstCell, filledInfoColumns, dates) ==
    ~hasFirstCell /\ filledInfoColumns = 0 /\ Len(dates) = 0

\* 46-99: what the loop body makes of one row: the section header it sets,
\* the row it skips, or the activity it pushes
RowKind(row, infoHeaders, calendarColumns, year) ==
    LET filledInfoColumns == FilledInfoColumns(row, infoHeaders)
        hasFirstCell == Filled(At(row, 0))
        dates == DatesOf(row, calendarColumns, year, 1)
    IN IF IsSectionHeader(hasFirstCell, filledInfoColumns, dates) THEN "section"
       ELSE IF IsEmptyRow(hasFirstCell, filledInfoColumns, dates) THEN "empty"
       ELSE "activity"

\* 42, 79: currentSection when the loop reaches row k: null, or the trimmed
\* text of the first cell of the last section header above row k
CurrentSection(rows, kinds, k) ==
    LET above == {j \in 1..(k - 1) : kinds[j] = "section"}
    IN IF above = {} THEN NoSection
       ELSE LET last == CHOOSE j \in above : \A i \in above : i <= j
            IN Section(JsTrim(Str(At(rows[last], 0))))

\* 90-98: the activity pushed for row k; it keeps, besides its three
\* fields, the index of the row it was made of
PushedActivity(rows, kinds, k, infoHeaders, calendarColumns, year) ==
    LET row == rows[k]
        firstCellValue == At(row, 0)
        info == InfoData(row, infoHeaders, Len(infoHeaders))
    IN [rowData |-> IF Filled(firstCellValue)
                    THEN Put(info, <<"A", "k", "t", "i", "v", "i", "t", "e", "t">>,
                             firstCellValue)
                    ELSE info,
        dates |-> DatesOf(row, calendarColumns, year, 1),
        sectionHeader |-> CurrentSection(rows, kinds, k),
        row |-> k]

\* 26-105: the activities of the rows, in row order
preprocessCalendarExcelV2(rows, infoHeaders, calendarColumns, year) ==
    LET kinds == [k \in 1..Len(rows) |->
                     RowKind(rows[k], infoHeaders, calendarColumns, year)]
        Pushes(k) == kinds[k] = "activity"
        pushed == SelectSeq([k \in 1..Len(rows) |-> k], Pushes)
    IN [n \in 1..Len(pushed) |->
           PushedActivity(rows, kinds, pushed[n], infoHeaders, calendarColumns, year)]

\* ------------------------------------------------------------------------
\* The model's answer (part_006 398-421 and 671-694)
\* ------------------------------------------------------------------------
\* What JSON.parse makes of a text: a SyntaxError, a value that is no
\* array, or an array of items
NotJson == [ok |-> FALSE, array |-> FALSE, items |-> <<>>]
JsonOther == [ok |-> TRUE, array |-> FALSE, items |-> <<>>]
JsonArray(items) == [ok |-> TRUE, array |-> TRUE, items |-> items]

\* response.text, kept by what the handler reads of it: whether it is
\* there, whether it is the empty string, and what JSON.parse makes of it
NoText == [defined |-> FALSE, empty |-> TRUE, json |-> NotJson]
EmptyText == [defined |-> TRUE, empty |-> TRUE, json |-> NotJson]
Text(json) == [defined |-> TRUE, empty |-> FALSE, json |-> json]

\* 407 and 680: response.text || '[]'
ResponseTextOf(text) ==
    IF text.defined /\ ~text.empty THEN text ELSE Text(JsonArray(<<>>))

\* 410-414 and 683-687 past the catch: a value that is no array becomes []
ParsedActivities(json) == IF json.array THEN json.items ELSE <<>>

\* an element of the array: an object of the fields the handler reads
\* (title, suggested_focus_area: <<>> when absent; start_date: "" when
\* absent; weeks: an array of values or something else), or a null
Item(title, suggested, weeks, date) ==
    [k |-> "obj", title |-> title, suggested_focus_area |-> suggested,
     weeks |-> weeks, start_date |-> date]
NullItem == [k |-> "null", title |-> <<>>, suggested_focus_area |-> <<>>,
             weeks |-> [array |-> FALSE, items |-> <<>>], start_date |-> ""]
Weeks(items) == [array |-> TRUE, items |-> items]
NoWeeks == [array |-> FALSE, items |-> <<>>]

\* the filter with 53 as its ceiling
WeekOkUpTo53(w) == w.t = "num" /\ w.n >= 10 /\ w.n <= 530

\* 435 and 708: typeof w === 'number' && w >= 1 && w <= 52
WeekOk(w) == w.t = "num" /\ w.n >= 10 /\ w.n <= 520

\* 'Namnlös aktivitet'
Untitled ==
    <<"N", "a", "m", "n", "l", "ö", "s", " ", "a", "k", "t", "i", "v", "i", "t", "e", "t">>

\* 424-444 and 697-717: the staged activity of one element (the fields
\* description, end_date, responsible, purpose, theme, target_group are
\* handed on like start_date and are left out)
BuildActivity(a, match) ==
    [title |-> IF a.title # <<>> THEN a.title ELSE Untitled,
     suggested_focus_area |-> a.suggested_focus_area,
     matched_focus_area_id |-> match.focus_area_id,
     matched_focus_area_name |-> match.focus_area_name,
     confidence |-> match.confidence,
     start_date |-> a.start_date,
     weeks |-> IF a.weeks.array THEN SelectSeq(a.weeks.items, WeekOk) ELSE <<>>,
     needs_review |-> match.needs_review,
     review_reason |-> match.review_reason]

\* ------------------------------------------------------------------------
\* POST /generate-activities (part_006 293-454) and POST /parse-excel
\* (part_006 457-734), one action per outcome of a step between awaits
\* ------------------------------------------------------------------------
\* part_006:307  description.length > 10000
MaxDescription == 10000

\* table focus_areas
FocusAreaTable ==
    << [id |-> "f1", name |-> <<"x">>, concept_id |-> "c1"],
       [id |-> "f2", name |-> <<"y">>, concept_id |-> "c2"] >>

\* 321-329 and 578-586: SELECT * FROM focus_areas [WHERE concept_id = $1]
FocusAreasOf(conceptId) ==
    LET InConcept(fa) == fa.concept_id = conceptId
    IN IF conceptId # NoId THEN SelectSeq(FocusAreaTable, InConcept) ELSE FocusAreaTable

NoReply == [status |-> 0, error |-> "", activities |-> <<>>, parsing_notes |-> <<>>]

ErrorReply(status, error) ==
    [status |-> status, error |-> error, activities |-> <<>>, parsing_notes |-> <<>>]

\* parseInt(req.body.year, 10)
YearOf(r) == ParseInt(r.year)

\* !year || isNaN(year)
YearMissing(r) == YearOf(r).nan \/ YearOf(r).n = 0

HasImages(r) == r.images > 0
HasDescription(r) == Len(JsTrim(r.description)) > 0

\* ------------------------------------------------------------------------
\* Requests of the extraction routes
\* ------------------------------------------------------------------------
XlsRequest(file, data, year, conceptId, apiKey) ==
    [file |-> file, data |-> data, description |-> <<>>, images |-> 0,
     year |-> year, conceptId |-> conceptId, apiKey |-> apiKey]

GenRequest(description, images, year, conceptId, apiKey) ==
    [file |-> "none", data |-> <<>>, description |-> description, images |-> images,
     year |-> year, conceptId |-> conceptId, apiKey |-> apiKey]

NoRequest == GenRequest(<<>>, 0, <<>>, NoId, FALSE)

\* req.body.year as the client sends it, and two that are rejected
Year2026 == <<"2", "0", "2", "6">>
BadYears == {<<"x">>, <<"0">>}

\* the header block: a title row, an empty row, the month header row
\* (info headers, then the months) and the week header row
TitleRowYear == <<S(<<"P", "l", "a", "n", " ", "2", "0", "2", "5">>)>>
TitleRowPlain == <<S(<<"P", "l", "a", "n">>)>>

Months ==
    <<S(<<"J", "a", "n", "u", "a", "r", "i">>), Undef, S(<<"f", "e", "b", " ">>)>>
InfoNames ==
    <<S(<<"A", "n", "s", "v", "a", "r", "i", "g">>), S(<<"S", "y", "f", "t", "e">>)>>

MonthRowUnnamed == <<S(<<>>)>> \o InfoNames \o Months
MonthRowNamed ==
    <<S(<<"A", "k", "t", "i", "v", "i", "t", "e", "t", " ">>)>> \o InfoNames \o Months
\* the week header row: a number left of the months, the weeks 1, 2 and "5",
\* then 6.5, "7 v", "v8" and 53 right of the last month name
WeekRow ==
    <<Undef, Undef, N(30), N(10), N(20), S(<<"5">>), N(65), S(<<"7", " ", "v">>),
      S(<<"v", "8">>), N(530)>>

HeaderBlock(titleRow, monthRow) == <<titleRow, <<>>, monthRow, WeekRow>>

\* data rows: column 0, the info columns 1 and 2, the calendar columns
\* 3 (January, week 1), 4 (January, week 2) and 5 (February, week 5)
AB == S(<<"A", "B">>)
RowSection == <<S(<<"x", " ">>)>>
RowSectionInfo == <<S(<<"y">>), AB>>
RowKickoff == <<S(<<"K">>), AB, Undef, N(150), S(<<>>)>>
RowTwoInfos == <<S(<<"K">>), AB, S(<<"P">>)>>
RowFraction == <<S(<<"K">>), AB, Undef, N(155)>>
RowTexts == <<S(<<"K">>), Undef, Undef, S(<<"x">>), N(320), S(<<"3", "1">>)>>
RowBlank == <<Undef, S(<<>>)>>
RowNoTitle == <<Null, AB, Undef, Undef, Undef, N(10)>>

DataRows ==
    {RowSection, RowSectionInfo, RowKickoff, RowTwoInfos, RowFraction, RowTexts,
     RowBlank, RowNoTitle}

\* number of data rows of the enumerated sheets
MaxDataRows == 2

DataUpTo(n) == UNION {[1..k -> DataRows] : k \in 0..n}

Sheets ==
    {HeaderBlock(titleRow, monthRow) \o data :
        titleRow \in {TitleRowYear, TitleRowPlain},
        monthRow \in {MonthRowUnnamed, MonthRowNamed},
        data \in DataUpTo(MaxDataRows)}

\* sheets of the ceiling of 100 data rows and of one row more
FullSheet == HeaderBlock(TitleRowYear, MonthRowUnnamed) \o [k \in 1..MaxRows |-> RowKickoff]
OversizeSheet ==
    HeaderBlock(TitleRowYear, MonthRowUnnamed) \o [k \in 1..(MaxRows + 1) |-> RowKickoff]

\* sheets the detection has to turn down or gets little of: too short,
\* without a month name, the month header row below the scan window, and
\* the month header row as the last row of the sheet
ShortSheet == <<TitleRowYear, MonthRowUnnamed, WeekRow>>
ShortSheetNoMonth == <<TitleRowYear, <<>>, <<AB>>>>
NoMonthSheet == <<TitleRowYear, <<>>, InfoNames, WeekRow, RowKickoff>>
LateMonthSheet ==
    <<TitleRowYear, <<>>, <<>>, <<>>, <<>>, MonthRowUnnamed, WeekRow, RowKickoff>>
LastRowMonthSheet == <<TitleRowYear, <<>>, <<>>, <<>>, MonthRowUnnamed>>

OddSheets ==
    {FullSheet, OversizeSheet, ShortSheet, ShortSheetNoMonth, NoMonthSheet,
     LateMonthSheet, LastRowMonthSheet}

ReferenceSheet == HeaderBlock(TitleRowYear, MonthRowUnnamed) \o <<RowSection, RowKickoff>>

Description == <<"m", "o", "t", "e">>
LongDescription == [k \in 1..(MaxDescription + 1) |-> "a"]

\* requests with every answer of the model enumerated
ReferenceRequests ==
    {<<"excel", XlsRequest("sheet", ReferenceSheet, Year2026, c, TRUE)>> :
        c \in {NoId, "c1"}}
    \cup {<<"generate", GenRequest(Description, i, Year2026, NoId, TRUE)>> : i \in {0, 1}}

ExtractRequests ==
    ReferenceRequests
    \cup {<<"excel", XlsRequest("sheet", data, Year2026, NoId, TRUE)>> :
            data \in Sheets \cup OddSheets}
    \cup {<<"excel", XlsRequest("sheet", ReferenceSheet, y, NoId, TRUE)>> : y \in BadYears}
    \cup {<<"excel", XlsRequest(f, ReferenceSheet, Year2026, NoId, TRUE)>> :
            f \in {"none", "unreadable"}}
    \cup {<<"excel", XlsRequest("sheet", NoMonthSheet, y, NoId, k)>> :
            y \in BadYears \cup {Year2026}, k \in BOOLEAN}
    \cup {<<"excel", XlsRequest("sheet", ReferenceSheet, Year2026, "c3", TRUE)>>}
    \cup {<<"generate", GenRequest(d, i, y, c, k)>> :
            d \in {<<>>, <<" ">>, Description}, i \in {0, 1},
            y \in BadYears \cup {Year2026}, c \in {NoId, "c3"}, k \in BOOLEAN}
    \cup {<<"generate", GenRequest(LongDescription, 0, Year2026, NoId, TRUE)>>}

\* elements of the model's array
ItemExact ==
    Item(<<"K">>, <<"X">>,
         Weeks(<<N(10), N(530), N(0), S(<<"2">>), N(520), N(15)>>), "2025-01-15")
ItemFuzzy == Item(<<"K">>, <<"x", "y">>, NoWeeks, "")
ItemBare == Item(<<>>, <<>>, Weeks(<<N(30), N(20), N(20)>>), "")

ModelItems == {ItemExact, ItemFuzzy, ItemBare, NullItem}

\* what generateContent can resolve with
AllResponses ==
    {NoText, EmptyText, Text(NotJson), Text(JsonOther)}
    \cup {Text(JsonArray(items)) :
            items \in UNION {[1..k -> ModelItems] : k \in 0..MaxStaged}}

BasicResponses == {Text(NotJson), Text(JsonOther), EmptyText, Text(JsonArray(<<ItemExact>>))}

ResponsesTo(r) ==
    IF <<xRoute, r>> \in ReferenceRequests THEN AllResponses ELSE BasicResponses

ExtractInputs ==
    /\ \E p \in ExtractRequests : xRoute = p[1] /\ xReq = p[2]
    /\ xPc = "start"
    /\ xSheet = NoSheet
    /\ xFocusAreas = <<>>
    /\ xPreprocessed = <<>>
    /\ xResponseText = NoText
    /\ xModelCalls = 0
    /\ xReply = NoReply

Answer(reply) ==
    /\ xReply' = reply
    /\ xPc' = "done"

\* 303-305
GenNoInput ==
    /\ xRoute = "generate" /\ xPc = "start"
    /\ ~HasDescription(xReq) /\ ~HasImages(xReq)
    /\ Answer(ErrorReply(400, "Beskrivning eller bilder krävs"))
    /\ UNCHANGED <<xRoute, xReq, xSheet, xFocusAreas, xPreprocessed, xResponseText, xModelCalls>>
    /\ UNCHANGED <<batchVars, matchVars, uiVars, weekVars>>

\* 307-309
GenTooLong ==
    /\ xRoute = "generate" /\ xPc = "start"
    /\ HasDescription(xReq) \/ HasImages(xReq)
    /\ Len(xReq.description) > MaxDescription
    /\ Answer(ErrorReply(400, "Beskrivning får inte överstiga 10000 tecken"))
    /\ UNCHANGED <<xRoute, xReq, xSheet, xFocusAreas, xPreprocessed, xResponseText, xModelCalls>>
    /\ UNCHANGED <<batchVars, matchVars, uiVars, weekVars>>

GenInputOk ==
    /\ xRoute = "generate" /\ xPc = "start"
    /\ HasDescription(xReq) \/ HasImages(xReq)
    /\ Len(xReq.description) <= MaxDescription

\* 311-313
GenNoYear ==
    /\ GenInputOk
    /\ YearMissing(xReq)
    /\ Answer(ErrorReply(400, "År krävs"))
    /\ UNCHANGED <<xRoute, xReq, xSheet, xFocusAreas, xPreprocessed, xResponseText, xModelCalls>>
    /\ UNCHANGED <<batchVars, matchVars, uiVars, weekVars>>

\* 315-318
GenNoKey ==
    /\ GenInputOk
    /\ ~YearMissing(xReq)
    /\ ~xReq.apiKey
    /\ Answer(ErrorReply(500, "AI-tjänsten är inte konfigurerad"))
    /\ UNCHANGED <<xRoute, xReq, xSheet, xFocusAreas, xPreprocessed, xResponseText, xModelCalls>>
    /\ UNCHANGED <<batchVars, matchVars, uiVars, weekVars>>

\* 320-328: the focus area query is issued
GenQuery ==
    /\ GenInputOk
    /\ ~YearMissing(xReq)
    /\ xReq.apiKey
    /\ xPc' = "query"
    /\ UNCHANGED <<xRoute, xReq, xSheet, xFocusAreas, xPreprocessed, xResponseText,
                   xModelCalls, xReply>>
    /\ UNCHANGED <<batchVars, matchVars, uiVars, weekVars>>

\* 463-465
XlsNoFile ==
    /\ xRoute = "excel" /\ xPc = "start"
    /\ xReq.file = "none"
    /\ Answer(ErrorReply(400, "Ingen fil uppladdad"))
    /\ UNCHANGED <<xRoute, xReq, xSheet, xFocusAreas, xPreprocessed, xResponseText, xModelCalls>>
    /\ UNCHANGED <<batchVars, matchVars, uiVars, weekVars>>

\* 467-469
XlsNoYear ==
    /\ xRoute = "excel" /\ xPc = "start"
    /\ xReq.file # "none"
    /\ YearMissing(xReq)
    /\ Answer(ErrorReply(400, "År krävs"))
    /\ UNCHANGED <<xRoute, xReq, xSheet, xFocusAreas, xPreprocessed, xResponseText, xModelCalls>>
    /\ UNCHANGED <<batchVars, matchVars, uiVars, weekVars>>

\* 471-474
XlsNoKey ==
    /\ xRoute = "excel" /\ xPc = "start"
    /\ xReq.file # "none"
    /\ ~YearMissing(xReq)
    /\ ~xReq.apiKey
    /\ Answer(ErrorReply(500, "AI-tjänsten är inte konfigurerad"))
    /\ UNCHANGED <<xRoute, xReq, xSheet, xFocusAreas, xPreprocessed, xResponseText, xModelCalls>>
    /\ UNCHANGED <<batchVars, matchVars, uiVars, weekVars>>

XlsRequestOk ==
    /\ xRoute = "excel" /\ xPc = "start"
    /\ xReq.file # "none"
    /\ ~YearMissing(xReq)
    /\ xReq.apiKey

\* 723-733: the answer of the outer catch
XlsErr500 == ErrorReply(500, "Kunde inte tolka Excel-filen")

\* 450-453: the answer of the outer catch
GenErr500 == ErrorReply(500, "Kunde inte generera aktiviteter")

OuterCatch == IF xRoute = "excel" THEN XlsErr500 ELSE GenErr500

\* 477 and 723-733: XLSX.read throws on a buffer it cannot read
XlsUnreadable ==
    /\ XlsRequestOk
    /\ xReq.file = "unreadable"
    /\ Answer(XlsErr500)
    /\ UNCHANGED <<xRoute, xReq, xSheet, xFocusAreas, xPreprocessed, xResponseText, xModelCalls>>
    /\ UNCHANGED <<batchVars, matchVars, uiVars, weekVars>>

\* 482-484
XlsTooFewRows ==
    /\ XlsRequestOk
    /\ xReq.file = "sheet"
    /\ Len(xReq.data) < MinSheetRows
    /\ Answer(ErrorReply(400, "Excel-filen verkar vara tom eller har för få rader"))
    /\ UNCHANGED <<xRoute, xReq, xSheet, xFocusAreas, xPreprocessed, xResponseText, xModelCalls>>
    /\ UNCHANGED <<batchVars, matchVars, uiVars, weekVars>>

\* 541: monthHeaderRow.length === 0 after the scan of 517-539
NoMonthHeader(data) == MonthRowFrom(data, 0) = -1

\* 541-543
XlsNoMonthHeader ==
    /\ XlsRequestOk
    /\ xReq.file = "sheet"
    /\ Len(xReq.data) >= MinSheetRows
    /\ NoMonthHeader(xReq.data)
    /\ Answer(ErrorReply(400, "Kunde inte hitta månadsrubriker i Excel-filen"))
    /\ UNCHANGED <<xRoute, xReq, xSheet, xFocusAreas, xPreprocessed, xResponseText, xModelCalls>>
    /\ UNCHANGED <<batchVars, matchVars, uiVars, weekVars>>

\* 486-585: the structure is detected and the focus area query is issued
XlsStructure ==
    /\ XlsRequestOk
    /\ xReq.file = "sheet"
    /\ Len(xReq.data) >= MinSheetRows
    /\ ~NoMonthHeader(xReq.data)
    /\ xSheet' = Structure(xReq.data, YearOf(xReq).n)
    /\ xPc' = "query"
    /\ UNCHANGED <<xRoute, xReq, xFocusAreas, xPreprocessed, xResponseText,
                   xModelCalls, xReply>>
    /\ UNCHANGED <<batchVars, matchVars, uiVars, weekVars>>

\* 325 and 582: the query throws, the outer catch answers
QueryThrows ==
    /\ xPc = "query"
    /\ Answer(OuterCatch)
    /\ UNCHANGED <<xRoute, xReq, xSheet, xFocusAreas, xPreprocessed, xResponseText, xModelCalls>>
    /\ UNCHANGED <<batchVars, matchVars, uiVars, weekVars>>

\* 331-333 and 588-590
NoFocusAreas ==
    /\ xPc = "query"
    /\ FocusAreasOf(xReq.conceptId) = <<>>
    /\ xFocusAreas' = <<>>
    /\ Answer(ErrorReply(400, "Inga fokusområden tillgängliga"))
    /\ UNCHANGED <<xRoute, xReq, xSheet, xPreprocessed, xResponseText, xModelCalls>>
    /\ UNCHANGED <<batchVars, matchVars, uiVars, weekVars>>

\* 335-405 and 592-678: the prompt is built (of the preprocessed rows for
\* a sheet) and generateContent is called
CallModel ==
    /\ xPc = "query"
    /\ FocusAreasOf(xReq.conceptId) # <<>>
    /\ xFocusAreas' = FocusAreasOf(xReq.conceptId)
    /\ xPreprocessed' =
          IF xRoute = "excel"
          THEN preprocessCalendarExcelV2(xSheet.rows, xSheet.infoHeaders,
                                         xSheet.calendarColumns, xSheet.effectiveYear)
          ELSE <<>>
    /\ xModelCalls' = xModelCalls + 1
    /\ xPc' = "model"
    /\ UNCHANGED <<xRoute, xReq, xSheet, xResponseText, xReply>>
    /\ UNCHANGED <<batchVars, matchVars, uiVars, weekVars>>

\* 398 and 671: generateContent rejects, the outer catch answers
ModelThrows ==
    /\ xPc = "model"
    /\ Answer(OuterCatch)
    /\ UNCHANGED <<xRoute, xReq, xSheet, xFocusAreas, xPreprocessed, xResponseText, xModelCalls>>
    /\ UNCHANGED <<batchVars, matchVars, uiVars, weekVars>>

\* 398-407 and 671-680: generateContent resolves
ModelAnswers ==
    /\ xPc = "model"
    /\ \E text \in ResponsesTo(xReq) : xResponseText' = text
    /\ xPc' = "parse"
    /\ UNCHANGED <<xRoute, xReq, xSheet, xFocusAreas, xPreprocessed, xModelCalls, xReply>>
    /\ UNCHANGED <<batchVars, matchVars, uiVars, weekVars>>

\* the answer of the catch without its note
InvalidJsonReplyNoNote ==
    [status |-> 500, error |-> "Kunde inte tolka AI-svaret",
     activities |-> <<>>, parsing_notes |-> <<>>]

\* 417-420 and 690-693
InvalidJsonReply ==
    [status |-> 500, error |-> "Kunde inte tolka AI-svaret",
     activities |-> <<>>, parsing_notes |-> <<"AI returnerade ogiltigt JSON-format">>]

\* 410-421 and 683-694: JSON.parse throws
InvalidJson ==
    /\ xPc = "parse"
    /\ ~ResponseTextOf(xResponseText).json.ok
    /\ Answer(InvalidJsonReply)
    /\ UNCHANGED <<xRoute, xReq, xSheet, xFocusAreas, xPreprocessed, xResponseText, xModelCalls>>
    /\ UNCHANGED <<batchVars, matchVars, uiVars, weekVars>>

\* the elements the map of 424 / 697 runs over
Parsed == ParsedActivities(ResponseTextOf(xResponseText).json)

\* 424-425 and 697-698 on an element that is null: reading
\* a.suggested_focus_area throws, the outer catch answers
ItemThrows ==
    /\ xPc = "parse"
    /\ ResponseTextOf(xResponseText).json.ok
    /\ \E k \in 1..Len(Parsed) : Parsed[k].k = "null"
    /\ Answer(OuterCatch)
    /\ UNCHANGED <<xRoute, xReq, xSheet, xFocusAreas, xPreprocessed, xResponseText, xModelCalls>>
    /\ UNCHANGED <<batchVars, matchVars, uiVars, weekVars>>

\* 448 and 721: parsing_notes of the answer
ParsingNotes ==
    IF xRoute = "excel"
    THEN IF Len(xSheet.rows) > MaxRows
         THEN <<"Endast de första 100 raderna behandlades">> ELSE <<>>
    ELSE IF HasImages(xReq)
         THEN <<ToString(xReq.images) \o " bild(er) analyserades">> ELSE <<>>

\* the scores fuse.search answers with in these calls
ExtractScoreLevels == {100, 400}

\* 423-449 and 696-722: every element is matched and the list is sent
RespondActivities ==
    /\ xPc = "parse"
    /\ ResponseTextOf(xResponseText).json.ok
    /\ \A k \in 1..Len(Parsed) : Parsed[k].k = "obj"
    /\ \E fuse \in [1..Len(Parsed) ->
                       FuseOutputs(Available(xFocusAreas, xReq.conceptId), ExtractScoreLevels)] :
          Answer([status |-> 200, error |-> "",
                  activities |->
                      [k \in 1..Len(Parsed) |->
                          BuildActivity(Parsed[k],
                              MatchFocusArea(Parsed[k].suggested_focus_area, xFocusAreas,
                                             xReq.conceptId, fuse[k]))],
                  parsing_notes |-> ParsingNotes])
    /\ UNCHANGED <<xRoute, xReq, xSheet, xFocusAreas, xPreprocessed, xResponseText, xModelCalls>>
    /\ UNCHANGED <<batchVars, matchVars, uiVars, weekVars>>

ExtractIdle ==
    /\ xRoute = "none"
    /\ xReq = NoRequest
    /\ xPc = "idle"
    /\ xSheet = NoSheet
    /\ xFocusAreas = <<>>
    /\ xPreprocessed = <<>>
    /\ xResponseText = NoText
    /\ xModelCalls = 0
    /\ xReply = NoReply

\* ------------------------------------------------------------------------
\* getWeekNumber (part_006 107-114, the same in YearSelector.tsx 139-144)
\* ------------------------------------------------------------------------
NextDay(dt) ==
    IF dt.d < DaysInMonth(dt.y, dt.m) THEN [dt EXCEPT !.d = dt.d + 1]
    ELSE IF dt.m < 12 THEN [y |-> dt.y, m |-> dt.m + 1, d |-> 1]
    ELSE [y |-> dt.y + 1, m |-> 1, d |-> 1]

\* leap days of the years before y
LeapsBefore(y) == (y - 1) \div 4 - (y - 1) \div 100 + (y - 1) \div 400

\* Date.UTC(y, 0, 1) / 86400000: days from the first of January 1970
DaysBeforeYear(y) == 365 * (y - 1970) + LeapsBefore(y) - LeapsBefore(1970)

RECURSIVE DaysBeforeMonth(_, _)
DaysBeforeMonth(y, m) ==
    IF m = 1 THEN 0 ELSE DaysBeforeMonth(y, m - 1) + DaysInMonth(y, m - 1)

\* Date.UTC(date.getFullYear(), date.getMonth(), date.getDate()) / 86400000
UtcDay(dt) == DaysBeforeYear(dt.y) + DaysBeforeMonth(dt.y, dt.m) + dt.d - 1

\* getUTCDay() of a day number: the first of January 1970 was a Thursday
UtcWeekDay(n) == (n + 4) % 7

\* d.getUTCDay() || 7
DayNum(n) == IF UtcWeekDay(n) = 0 THEN 7 ELSE UtcWeekDay(n)

\* getUTCFullYear() of a day number at most a week away from the year y
UtcYearNear(n, y) ==
    IF n < DaysBeforeYear(y) THEN y - 1
    ELSE IF n >= DaysBeforeYear(y + 1) THEN y + 1
    ELSE y

\* the year start taken of the argument instead of the shifted day
YearStartOfArgument(n, dt) == DaysBeforeYear(dt.y)

\* new Date(Date.UTC(d.getUTCFullYear(), 0, 1)) for the shifted day n
YearStart(n, dt) == DaysBeforeYear(UtcYearNear(n, dt.y))

\* Math.ceil(a / b) for b > 0
CeilDiv(a, b) == 0 - ((0 - a) \div b)

getWeekNumber(date) ==
    LET d0 == UtcDay(date)
        d == d0 + 4 - DayNum(d0)
    IN CeilDiv(d - YearStart(d, date) + 1, 7)

\* the years getWeekNumber is called for
FirstWeekYear == 2019
LastWeekYear == 2027

WeekDates ==
    {[y |-> y, m |-> m, d |-> d] :
        y \in FirstWeekYear..LastWeekYear, m \in 1..12, d \in 1..31}

\* the call
WeekCall ==
    /\ wpc = "call"
    /\ wWeek' = getWeekNumber(wDate)
    /\ wpc' = "done"
    /\ UNCHANGED <<wDate, wPrevWeek>>
    /\ UNCHANGED <<batchVars, matchVars, uiVars, extractVars>>

\* the caller goes on to the next day of the calendar
WeekNextDay ==
    /\ wpc = "done"
    /\ NextDay(wDate).y <= LastWeekYear
    /\ wDate' = NextDay(wDate)
    /\ wPrevWeek' = wWeek
    /\ wWeek' = 0
    /\ wpc' = "call"
    /\ UNCHANGED <<batchVars, matchVars, uiVars, extractVars>>

WeekInputs ==
    /\ wDate \in {dt \in WeekDates : dt.d <= DaysInMonth(dt.y, dt.m)}
    /\ wWeek = 0
    /\ wPrevWeek = 0
    /\ wpc = "call"

WeekIdle ==
    /\ wDate = [y |-> 1970, m |-> 1, d |-> 1]
    /\ wWeek = 0
    /\ wPrevWeek = 0
    /\ wpc = "idle"

\* ------------------------------------------------------------------------
\* Specification of the batch commit: one request against a store that an
\* earlier commit may have filled
\* ------------------------------------------------------------------------
InitRequest(batches) ==
    /\ store \in InitialStores
    /\ nextId = 2
    /\ tz \in TimeZones
    /\ \E b \in batches, sd \in BOOLEAN :
         /\ Len(b) >= MaxBatchSize => sd
         /\ activities = [r \in Reqs |-> IF r = 1 THEN b ELSE <<>>]
         /\ skipDuplicates = [r \in Reqs |-> IF r = 1 THEN sd ELSE TRUE]
    /\ pc = [r \in Reqs |-> IF r = 1 THEN "start" ELSE "idle"]
    /\ idx = [r \in Reqs |-> 0]
    /\ existingSet = [r \in Reqs |-> {}]
    /\ created = [r \in Reqs |-> <<>>]
    /\ failed = [r \in Reqs |-> <<>>]
    /\ skipped = [r \in Reqs |-> <<>>]
    /\ response = [r \in Reqs |-> NoResponse]
    /\ insertedId = [r \in Reqs |-> 0]
    /\ storeAtStart = [r \in Reqs |-> store]
    /\ insertCalls = [r \in Reqs |-> {}]
    /\ dbErrors = [r \in Reqs |-> {}]

Init ==
    /\ InitRequest(BatchesUpTo(MaxBatchLen) \cup ScenarioBatches \cup {FullBatch, OversizeBatch})
    /\ MatchIdle
    /\ UiIdle
    /\ ExtractIdle
    /\ WeekIdle

BatchStep(r) ==
    \/ RejectEmpty(r)
    \/ RejectTooLarge(r)
    \/ Accept(r)
    \/ Snapshot(r)
    \/ SnapshotThrows(r)
    \/ NullEntryAborts(r)
    \/ ValidationFails(r)
    \/ TitleNotStringAborts(r)
    \/ SkipDuplicate(r)
    \/ IssueInsert(r)
    \/ InsertOk(r)
    \/ InsertThrows(r)
    \/ FetchOk(r)
    \/ FetchEmpty(r)
    \/ FetchThrows(r)
    \/ Respond(r)

Next == \E r \in Reqs : BatchStep(r)

Spec == Init /\ [][Next]_vars

\* no batch request at all
BatchIdle ==
    /\ store = {}
    /\ nextId = 2
    /\ tz = 0
    /\ activities = [r \in Reqs |-> <<>>]
    /\ skipDuplicates = [r \in Reqs |-> TRUE]
    /\ pc = [r \in Reqs |-> "idle"]
    /\ idx = [r \in Reqs |-> 0]
    /\ existingSet = [r \in Reqs |-> {}]
    /\ created = [r \in Reqs |-> <<>>]
    /\ failed = [r \in Reqs |-> <<>>]
    /\ skipped = [r \in Reqs |-> <<>>]
    /\ response = [r \in Reqs |-> NoResponse]
    /\ insertedId = [r \in Reqs |-> 0]
    /\ storeAtStart = [r \in Reqs |-> {}]
    /\ insertCalls = [r \in Reqs |-> {}]
    /\ dbErrors = [r \in Reqs |-> {}]

\* ------------------------------------------------------------------------
\* Specification of the matcher: one call on enumerated arguments
\* ------------------------------------------------------------------------
InitMatch == BatchIdle /\ MatchInputs /\ UiIdle /\ ExtractIdle /\ WeekIdle

NextMatch == MatchCall

SpecMatch == InitMatch /\ [][NextMatch]_vars

\* ------------------------------------------------------------------------
\* Properties of the batch commit
\* ------------------------------------------------------------------------
\* the input indexes a list of the result names
Idx(list) == {list[k].index : k \in 1..Len(list)}

Done201(r) == pc[r] = "done" /\ response[r].status = 201

Accounted(r) == Idx(created[r]) \cup Idx(skipped[r]) \cup Idx(failed[r])

\* a candidate the handler computes a duplicate key for
HasKey(a) == a.kind = "obj" /\ ~Invalid(a) /\ a.title.t = "str"

\* the duplicate key as the specification words it:
\* (lower-cased trimmed title, focus_area_id, start_date)
DuplicateKey(a) == <<Lower(JsTrim(a.title.s)), a.focus_area_id, a.start_date>>

\* the same key of an activity of the store
StoredKey(row) ==
    <<Lower(JsTrim(row.title)), row.focus_area_id,
      IF row.start_date = NullDate THEN "" ELSE FormatDate(row.start_date)>>

\* C1: a batch commit of 1..100 candidates that returns a result accounts for
\* every input index 0..n-1 in exactly one of created, skipped, failed, and
\* the three lists have n entries together.
C1_Partition ==
    \A r \in Reqs :
        (Done201(r) /\ Len(activities[r]) \in 1..MaxBatchSize) =>
            /\ Accounted(r) = 0..(Len(activities[r]) - 1)
            /\ Idx(created[r]) \cap Idx(skipped[r]) = {}
            /\ Idx(created[r]) \cap Idx(failed[r]) = {}
            /\ Idx(skipped[r]) \cap Idx(failed[r]) = {}
            /\ Len(created[r]) + Len(skipped[r]) + Len(failed[r]) = Len(activities[r])

C1_Witness ==
    \E r \in Reqs :
        /\ Done201(r)
        /\ created[r] # <<>> /\ skipped[r] # <<>> /\ failed[r] # <<>>

\* C2: with duplicate suppression on, of two candidates of one batch with the
\* same duplicate key at most one is in created and one of them is in skipped.
C2_SameKeyCollapse ==
    \A r \in Reqs :
        (Done201(r) /\ skipDuplicates[r]) =>
            \A i, j \in 1..Len(activities[r]) :
                ( /\ i < j
                  /\ HasKey(activities[r][i]) /\ HasKey(activities[r][j])
                  /\ DuplicateKey(activities[r][i]) = DuplicateKey(activities[r][j]) )
                => /\ ~({i - 1, j - 1} \subseteq Idx(created[r]))
                   /\ (i - 1 \in Idx(skipped[r]) \/ j - 1 \in Idx(skipped[r]))

C2_Witness ==
    \E r \in Reqs :
        /\ Done201(r) /\ skipDuplicates[r]
        /\ \E i, j \in 1..Len(activities[r]) :
              /\ i < j
              /\ HasKey(activities[r][i]) /\ HasKey(activities[r][j])
              /\ activities[r][i].title # activities[r][j].title
              /\ DuplicateKey(activities[r][i]) = DuplicateKey(activities[r][j])
              /\ i - 1 \in Idx(created[r])
              /\ j - 1 \in Idx(skipped[r])

\* C3 (as the specification states it): a candidate whose key equals the key
\* of an activity that is in the store when the batch starts is in skipped,
\* is not in created, and no INSERT is issued for it.
C3_StoredDuplicateSkipped ==
    \A r \in Reqs :
        (Done201(r) /\ skipDuplicates[r]) =>
            \A i \in 1..Len(activities[r]) :
                ( /\ HasKey(activities[r][i])
                  /\ \E row \in storeAtStart[r] :
                        StoredKey(row) = DuplicateKey(activities[r][i]) )
                => /\ i - 1 \in Idx(skipped[r])
                   /\ i - 1 \notin Idx(created[r])
                   /\ i - 1 \notin insertCalls[r]

\* C4: a batch of more than 100 candidates is rejected as a whole before any
\* candidate is processed: the answer is the error, no list is filled, no
\* query is issued and the store is as it was.
C4_OversizeRejected ==
    \A r \in Reqs :
        Len(activities[r]) > MaxBatchSize =>
            /\ pc[r] \in {"start", "done"}
            /\ pc[r] = "done" => (response[r].status = 400 /\ response[r].error # "")
            /\ created[r] = <<>> /\ skipped[r] = <<>> /\ failed[r] = <<>>
            /\ insertCalls[r] = {} /\ dbErrors[r] = {}
            /\ store = storeAtStart[r]

C4_Witness ==
    \E r \in Reqs :
        /\ Len(activities[r]) = MaxBatchSize + 1
        /\ pc[r] = "done"
        /\ response[r].status = 400

\* C5: when the persistence call of candidate i throws, i is recorded in
\* failed, the loop goes on with the candidates after i (all of them are
\* accounted for in the result), and what was created before stays stored.
C5_FailureIsolated ==
    \A r \in Reqs :
        \A i \in dbErrors[r] \ {-1} :
            /\ i \in Idx(failed[r])
            /\ i \notin Idx(created[r])
            /\ idx[r] > i
            /\ Done201(r) => (i + 1)..(Len(activities[r]) - 1) \subseteq Accounted(r)
            /\ \A k \in 1..Len(created[r]) :
                  created[r][k].id # 0 => \E row \in store : row.id = created[r][k].id

C5_Witness ==
    \E r \in Reqs :
        /\ Done201(r)
        /\ \E i \in dbErrors[r] :
              /\ i \in Idx(failed[r])
              /\ \E k \in 1..Len(created[r]) :
                    /\ created[r][k].index < i
                    /\ \E row \in store : row.id = created[r][k].id
              /\ \E j \in Idx(created[r]) : j > i

\* C6 (as the specification states it): no candidate aborts a batch commit;
\* unless the snapshot query itself fails, a batch of 1..100 candidates ends
\* with the partition, in which every candidate is reported.
C6_NoCandidateAborts ==
    \A r \in Reqs :
        ( /\ pc[r] = "done"
          /\ Len(activities[r]) \in 1..MaxBatchSize
          /\ -1 \notin dbErrors[r] )
        => /\ response[r].status = 201
           /\ Accounted(r) = 0..(Len(activities[r]) - 1)

\* ------------------------------------------------------------------------
\* Specification of the review state: the modal as opened
\* ------------------------------------------------------------------------
InitUI == BatchIdle /\ MatchIdle /\ UiIdle /\ ExtractIdle /\ WeekIdle

NextUI ==
    \/ GenerateStart
    \/ GenerateDone
    \/ GenerateFails
    \/ \E index \in 0..(MaxStaged - 1) : ToggleSelection(index)
    \/ SelectAll
    \/ DeselectAll
    \/ \E index \in 0..(MaxStaged - 1), focusAreaId \in {"", "f1", "f2"} :
          UpdateFocusArea(index, focusAreaId)
    \/ HandleCreateActivities
    \/ Back

SpecUI == InitUI /\ [][NextUI]_vars

\* C7: whatever the sequence of generate, toggle, select all, deselect all
\* and change of focus area, every selected staged activity has a
\* matched_focus_area_id, and every candidate posted carries a focus_area_id.
C7_SelectedAreMatched ==
    /\ \A index \in selectedIndexes :
          /\ index \in 0..(Len(generatedActivities) - 1)
          /\ generatedActivities[index + 1].matched_focus_area_id # NoId
    /\ \A k \in 1..Len(sent) : sent[k].focus_area_id # NoId

C7_Witness ==
    /\ selectedIndexes # {}
    /\ sent # <<>>
    /\ \E k \in 1..Len(generatedActivities) :
          /\ generatedActivities[k].matched_focus_area_id = NoId
          /\ k - 1 \notin selectedIndexes

\* ------------------------------------------------------------------------
\* Properties of the matcher
\* ------------------------------------------------------------------------
\* the focus areas inside the category filter of the call
InFilter == {k \in 1..Len(mFocusAreas) :
                mConceptId = NoId \/ mFocusAreas[k].concept_id = mConceptId}

\* those of them whose name equals the suggested name ignoring case
SameName == {k \in InFilter : Lower(mFocusAreas[k].name) = Lower(mSuggested)}

\* the suggested name is empty or consists of white space
BlankSuggested == \A k \in 1..Len(mSuggested) : mSuggested[k] \in JsWhite

\* the result of the call came from approximate matching
Approximate ==
    /\ mpc = "done"
    /\ ~BlankSuggested
    /\ SameName = {}
    /\ mFuse # <<>>

\* C8 (as the specification states it): whenever a candidate inside the
\* filter has the suggested name ignoring case, the result has confidence
\* 1.0, needs_review false and the id of such a candidate.
C8_ExactMatchAlways ==
    (mpc = "done" /\ SameName # {}) =>
        /\ mResult.confidence = 1000
        /\ ~mResult.needs_review
        /\ \E k \in SameName : mResult.focus_area_id = mFocusAreas[k].id

\* C8 (amended): whenever the suggested name is not empty or white space and
\* a candidate inside the filter has that name ignoring case, the result has
\* confidence 1.0, needs_review false and the id and name of the first such
\* candidate, whatever the scorer answers.
C8_ExactMatchOfNonBlank ==
    (mpc = "done" /\ ~BlankSuggested /\ SameName # {}) =>
        LET first == CHOOSE k \in SameName : \A l \in SameName : k <= l
        IN  /\ mResult.confidence = 1000
            /\ ~mResult.needs_review
            /\ mResult.focus_area_id = mFocusAreas[first].id
            /\ mResult.focus_area_name = mFocusAreas[first].name

C8_Witness ==
    /\ mpc = "done"
    /\ ~BlankSuggested
    /\ \E k \in SameName : mFocusAreas[k].name # mSuggested
    /\ mFuse # <<>>
    /\ mFuse[1].score > 1000 - ConfidenceThreshold
    /\ mResult.confidence = 1000

\* C9: for an empty or white space suggested name the result has a null id,
\* confidence 0 and needs_review true, whatever the candidates and the filter.
C9_BlankInput ==
    (mpc = "done" /\ BlankSuggested) =>
        /\ mResult.focus_area_id = NoId
        /\ mResult.confidence = 0
        /\ mResult.needs_review

C9_Witness ==
    /\ mpc = "done"
    /\ mSuggested # <<>>
    /\ BlankSuggested
    /\ mFuse # <<>>
    /\ mResult.focus_area_id = NoId

\* C10: for a result of approximate matching needs_review is false exactly
\* when confidence >= 0.8, and below 0.8 the id of the best candidate is
\* still returned, with needs_review true and a review_reason.
C10_Threshold ==
    Approximate =>
        /\ mResult.confidence = 1000 - mFuse[1].score
        /\ ~mResult.needs_review <=> mResult.confidence >= ConfidenceThreshold
        /\ mResult.confidence < ConfidenceThreshold =>
              /\ mResult.focus_area_id = mFuse[1].item.id
              /\ mResult.needs_review
              /\ mResult.review_reason # NoId

C10_Witness ==
    /\ Approximate
    /\ mResult.confidence < ConfidenceThreshold
    /\ mResult.focus_area_id # NoId
    /\ mResult.needs_review

\* ------------------------------------------------------------------------
\* Specification of the extraction routes: one request to either route
\* ------------------------------------------------------------------------
InitExtract == BatchIdle /\ MatchIdle /\ UiIdle /\ ExtractInputs /\ WeekIdle

NextExtract ==
    \/ GenNoInput
    \/ GenTooLong
    \/ GenNoYear
    \/ GenNoKey
    \/ GenQuery
    \/ XlsNoFile
    \/ XlsNoYear
    \/ XlsNoKey
    \/ XlsUnreadable
    \/ XlsTooFewRows
    \/ XlsNoMonthHeader
    \/ XlsStructure
    \/ QueryThrows
    \/ NoFocusAreas
    \/ CallModel
    \/ ModelThrows
    \/ ModelAnswers
    \/ InvalidJson
    \/ ItemThrows
    \/ RespondActivities

SpecExtract == InitExtract /\ [][NextExtract]_vars

\* The handler's own steps: every step of NextExtract that leaves the
\* positions "start", "query" and "parse" is one of the handler's branches
\* (validation, detection, the query's answer, parsing and matching), run by
\* the event loop as soon as the request or the awaited result is there. The
\* steps out of "model" are not among them: they are the settling of the
\* generateContent promise, which is the model service's to take. The handler
\* awaits that promise (398, 671) with no timer of its own, so nothing in the
\* code forces it to settle.
HandlerPositions == {"start", "query", "parse"}

HandlerStep ==
    /\ xPc \in HandlerPositions
    /\ xPc' \in {"query", "model", "parse", "done"}

\* the handler runs whenever it can; the model service may never answer
SpecExtractLive == SpecExtract /\ WF_xPc(HandlerStep)

\* ------------------------------------------------------------------------
\* Specification of the week number: calls for the days of the calendar
\* ------------------------------------------------------------------------
InitWeek == BatchIdle /\ MatchIdle /\ UiIdle /\ ExtractIdle /\ WeekInputs

NextWeek == WeekCall \/ WeekNextDay

SpecWeek == InitWeek /\ [][NextWeek]_vars

\* ------------------------------------------------------------------------
\* Properties of the extraction routes
\* ------------------------------------------------------------------------
\* the model answered with a text
Answered == xPc = "done" /\ xResponseText.defined

C12_NonArrayFails ==
    (Answered /\ xResponseText = Text(JsonOther)) => xReply = InvalidJsonReply

\* a cell that is a month name: a string whose lower-cased, trimmed text is
\* a key of the month table
MonthNameCell(cell) == cell.t = "str" /\ MonthOf(cell.s) # 0

\* none of the first 5 rows of the sheet has a month name cell
NoMonthInWindow(data) ==
    \A i \in 1..Len(data) :
        i <= 5 => \A c \in 1..Len(data[i]) : ~MonthNameCell(data[i][c])

\* the request reaches the sheet: a readable file, a year, a configured key
ReachesSheet == xRoute = "excel" /\ xReq.file = "sheet" /\ ~YearMissing(xReq) /\ xReq.apiKey

\* the errors that turn a sheet down for its structure
StructureErrors ==
    {"Kunde inte hitta månadsrubriker i Excel-filen",
     "Excel-filen verkar vara tom eller har för få rader"}

Preprocessed == xRoute = "excel" /\ xPc \in {"model", "parse", "done"} /\ xModelCalls > 0

\* the dates the preprocessor extracts of a row of the sheet
ExtractedDates(row) == DatesOf(row, xSheet.calendarColumns, xSheet.effectiveYear, 1)

\* the filled info columns of a row other than the first column
OtherFilledInfo(row) ==
    Cardinality({k \in 1..Len(xSheet.infoHeaders) :
                    /\ xSheet.infoHeaders[k].col # 0
                    /\ Filled(At(row, xSheet.infoHeaders[k].col))})

\* a section header row in the words of the specification
SectionRow(row) ==
    Filled(At(row, 0)) /\ Len(ExtractedDates(row)) = 0 /\ OtherFilledInfo(row) <= 1

\* the section text in force at row k: that of the last section header row
\* before it, null before the first
SectionAt(k) ==
    LET prior == {j \in 1..(k - 1) : SectionRow(xSheet.rows[j])}
    IN IF prior = {} THEN NoSection
       ELSE Section(JsTrim(Str(At(xSheet.rows[CHOOSE j \in prior : \A i \in prior : i <= j], 0))))

\* C14 (as the specification states it): a row with a first-column value,
\* no extracted date and at most one other filled info column makes no
\* activity and sets the current section to its trimmed text; every activity
\* carries the text of the last such row before it, null before the first.
C14_SectionHeaders ==
    Preprocessed =>
        /\ \A k \in 1..Len(xSheet.rows) :
              SectionRow(xSheet.rows[k]) =>
                  \A n \in 1..Len(xPreprocessed) : xPreprocessed[n].row # k
        /\ \A n \in 1..Len(xPreprocessed) :
              xPreprocessed[n].sectionHeader = SectionAt(xPreprocessed[n].row)

\* a cell that holds an integer day of the month: the number, or its digits
HoldsIntegerDay(cell) ==
    \/ cell.t = "num" /\ cell.n % 10 = 0 /\ cell.n \div 10 \in 1..31
    \/ /\ cell.t = "str" /\ cell.s # <<>>
       /\ \A k \in 1..Len(cell.s) : IsDigit(cell.s[k])
       /\ ParseInt(cell.s).n \in 1..31

\* a non-empty cell whose text begins (after white space) with an integer
\* that is a day of the month: 15, "15", 15.5, "15 mars"
ReadsAsDay(cell) ==
    /\ Filled(cell)
    /\ ~ParseInt(Str(cell)).nan
    /\ ParseInt(Str(cell)).n \in 1..31

TwoDigits(n) == IF n < 10 THEN "0" \o ToString(n) ELSE ToString(n)

\* the pair of calendar column k for a row
PairOf(row, k) ==
    LET colInfo == xSheet.calendarColumns[k]
    IN [date |-> ToString(xSheet.effectiveYear) \o "-" \o TwoDigits(colInfo.month)
                    \o "-" \o TwoDigits(ParseInt(Str(At(row, colInfo.col))).n),
        week |-> colInfo.week]

\* the calendar columns of a row whose cell holds an integer day
IntegerDayColumns(row) ==
    {k \in 1..Len(xSheet.calendarColumns) :
        HoldsIntegerDay(At(row, xSheet.calendarColumns[k].col))}

\* the calendar columns of a row whose cell reads as a day
DayColumns(row) ==
    {k \in 1..Len(xSheet.calendarColumns) :
        ReadsAsDay(At(row, xSheet.calendarColumns[k].col))}

\* dates is the list of the pairs of the columns cols, in column order
DatesAre(dates, row, cols) ==
    /\ Len(dates) = Cardinality(cols)
    /\ \A k \in cols : dates[Cardinality({j \in cols : j <= k})] = PairOf(row, k)

\* every row of the set makes exactly one activity
OneActivityEach(rowIndexes) ==
    \A k \in rowIndexes :
        Cardinality({n \in 1..Len(xPreprocessed) : xPreprocessed[n].row = k}) = 1

\* C15 (as the specification states it): the dates of a preprocessed row
\* are the pairs {date, week: w} of exactly the calendar columns {m, w}
\* whose cell holds an integer day d in 1..31, the date being the effective
\* year, m and d as YYYY-MM-DD with two-digit month and day; a row with a
\* title and such a cell makes exactly one activity.
C15_DatesOfIntegerDays ==
    Preprocessed =>
        /\ \A n \in 1..Len(xPreprocessed) :
              DatesAre(xPreprocessed[n].dates, xSheet.rows[xPreprocessed[n].row],
                       IntegerDayColumns(xSheet.rows[xPreprocessed[n].row]))
        /\ OneActivityEach({k \in 1..Len(xSheet.rows) :
                               /\ Filled(At(xSheet.rows[k], 0))
                               /\ IntegerDayColumns(xSheet.rows[k]) # {}})

\* C15 (amended): the dates of a preprocessed row are the pairs
\* {date, week: w} of exactly the calendar columns {m, w} whose cell is not
\* empty and reads as a day: parseInt of its text, which passes over what
\* follows the leading integer (15.5 and "15 mars" read as 15), is in
\* 1..31; the date is the effective year, m and that day as YYYY-MM-DD with
\* two-digit month and day; a row with a title and such a cell makes
\* exactly one activity.
C15_DatesOfCellsReadAsDays ==
    Preprocessed =>
        /\ \A n \in 1..Len(xPreprocessed) :
              DatesAre(xPreprocessed[n].dates, xSheet.rows[xPreprocessed[n].row],
                       DayColumns(xSheet.rows[xPreprocessed[n].row]))
        /\ OneActivityEach({k \in 1..Len(xSheet.rows) :
                               /\ Filled(At(xSheet.rows[k], 0))
                               /\ DayColumns(xSheet.rows[k]) # {}})

C15_Witness ==
    /\ Preprocessed
    /\ \E n, m \in 1..Len(xPreprocessed) :
          /\ xSheet.rows[xPreprocessed[n].row] = RowKickoff
          /\ xPreprocessed[n].dates = <<[date |-> "2025-01-15", week |-> 1]>>
          /\ xSheet.rows[xPreprocessed[m].row] = RowFraction
          /\ xPreprocessed[m].dates = <<[date |-> "2025-01-15", week |-> 1]>>

\* C17 (as the specification states it): when the sheet has more than 100
\* data rows after the header block, the answer that stages the activities
\* reports the rows beyond the cap in parsing_notes.
C17_CappedRowsNoted ==
    ( /\ xRoute = "excel" /\ xPc = "done" /\ xReply.status = 200
      /\ Len(xReq.data) - xSheet.dataStartRow > 100 )
    => xReply.parsing_notes # <<>>

\* ------------------------------------------------------------------------
\* Properties of the week number
\* ------------------------------------------------------------------------
\* C16: getWeekNumber is within 1..53 for every date, and from one day to
\* the next of the same calendar year it does not decrease, except from an
\* early January day that belongs to the last week (52 or 53) of the year
\* before, and to a late December day that belongs to week 1.
C16_WeekNumber ==
    wpc = "done" =>
        /\ wWeek \in 1..53
        /\ (wPrevWeek # 0 /\ ~(wDate.m = 1 /\ wDate.d = 1)) =>
              \/ wWeek >= wPrevWeek
              \/ wDate.m = 1 /\ wDate.d <= 4 /\ wPrevWeek \in {52, 53}
              \/ wDate.m = 12 /\ wDate.d >= 29 /\ wWeek = 1

C16_Witness ==
    /\ wpc = "done"
    /\ wDate = [y |-> 2021, m |-> 1, d |-> 4]
    /\ wPrevWeek = 53
    /\ wWeek = 1

\* ------------------------------------------------------------------------
\* Specification of two batch commits that run against the same store
\* ------------------------------------------------------------------------
\* length of the batches of the two requests
MaxRaceLen == 1

RaceCandidates ==
    {C_a, C_aD1, Cand(NoTitle, "f1", ""), Cand(NumTitle, "f1", ""), NullCand}

RaceBatches == UNION {[1..k -> RaceCandidates] : k \in 0..MaxRaceLen}

RaceStores == {{}, {NewRow(1, C_aD1)}}

InitRace ==
    /\ store \in RaceStores
    /\ nextId = 2
    /\ tz \in TimeZones
    /\ \E b1 \in RaceBatches \cup {OversizeBatch}, b2 \in RaceBatches, sd \in BOOLEAN :
         /\ Len(b1) >= MaxBatchSize => sd
         /\ activities = [r \in Reqs |-> IF r = 1 THEN b1 ELSE b2]
         /\ skipDuplicates = [r \in Reqs |-> IF r = 1 THEN sd ELSE TRUE]
    /\ pc = [r \in Reqs |-> "start"]
    /\ idx = [r \in Reqs |-> 0]
    /\ existingSet = [r \in Reqs |-> {}]
    /\ created = [r \in Reqs |-> <<>>]
    /\ failed = [r \in Reqs |-> <<>>]
    /\ skipped = [r \in Reqs |-> <<>>]
    /\ response = [r \in Reqs |-> NoResponse]
    /\ insertedId = [r \in Reqs |-> 0]
    /\ storeAtStart = [r \in Reqs |-> store]
    /\ insertCalls = [r \in Reqs |-> {}]
    /\ dbErrors = [r \in Reqs |-> {}]
    /\ MatchIdle
    /\ UiIdle
    /\ ExtractIdle
    /\ WeekIdle

SpecRace == InitRace /\ [][Next]_vars

\* ------------------------------------------------------------------------
\* Properties of the batch commit, continued
\* ------------------------------------------------------------------------
\* the keys the request has added for its own candidates
OwnKeys(r) == {ActivityKey(activities[r][k + 1]) : k \in insertCalls[r]}

\* both requests took their snapshot before either inserted: the two
\* snapshots read the same table
SnapshotsRaced ==
    /\ Done201(1) /\ Done201(2)
    /\ skipDuplicates[1] /\ skipDuplicates[2]
    /\ storeAtStart[1] = storeAtStart[2]

\* candidate i of request r is new to the snapshot, is the first of its key
\* in its batch, and no query made for it failed
NewToBatch(r, i) ==
    /\ HasKey(activities[r][i])
    /\ ActivityKey(activities[r][i]) \notin ExistingKeys(storeAtStart[r], tz)
    /\ \A k \in 1..(i - 1) :
          HasKey(activities[r][k]) =>
              ActivityKey(activities[r][k]) # ActivityKey(activities[r][i])
    /\ i - 1 \notin dbErrors[r]

\* C18: the key set of a request is the snapshot it read at its start plus
\* the keys of its own candidates, whatever the other request stores in
\* the meantime; and when both requests read their snapshot before either
\* inserted, a new candidate both contain is in created of both, and the
\* store ends with two activities of that candidate's title, focus area
\* and date, i.e. of the same duplicate key.
C18_RaceCreatesDuplicates ==
    /\ \A r \in Reqs :
          (skipDuplicates[r] /\ pc[r] \in {"loop", "insert", "fetch"}) =>
              existingSet[r] = ExistingKeys(storeAtStart[r], tz) \cup OwnKeys(r)
    /\ SnapshotsRaced =>
          \A i \in 1..Len(activities[1]), j \in 1..Len(activities[2]) :
              ( /\ activities[1][i] = activities[2][j]
                /\ NewToBatch(1, i) /\ NewToBatch(2, j) )
              => /\ i - 1 \in Idx(created[1])
                 /\ j - 1 \in Idx(created[2])
                 /\ \E row1, row2 \in store :
                       /\ row1.id # row2.id
                       /\ row1 = NewRow(row1.id, activities[1][i])
                       /\ row2 = NewRow(row2.id, activities[1][i])
                       /\ StoredKey(row1) = StoredKey(row2)
                       /\ ExistingKey(row1, tz) = ExistingKey(row2, tz)

C18_Witness ==
    /\ SnapshotsRaced
    /\ activities[1] = <<C_a>> /\ activities[2] = <<C_a>>
    /\ 0 \in Idx(created[1]) /\ 0 \in Idx(created[2])
    /\ Cardinality({row \in store : StoredKey(row) = DuplicateKey(C_a)}) = 2

\* the rows the request added to the table
NewRows(r) == store \ storeAtStart[r]

\* C19 (as stated): after a batch commit, every row the commit added to the
\* store is the row of a candidate that is in created, and there are no
\* more new rows than entries of created; an index in failed has no row.
C19_FailedNotPersisted ==
    \A r \in Reqs :
        Done201(r) =>
            /\ Cardinality(NewRows(r)) <= Len(created[r])
            /\ \A row \in NewRows(r) :
                  \E k \in 1..Len(created[r]) :
                      row = NewRow(row.id, activities[r][created[r][k].index + 1])

\* C20 (as stated): a candidate reported in skipped has an activity of the
\* same duplicate key in the store when the batch ends.
C20_SkippedHasStoredTwin ==
    \A r \in Reqs :
        (Done201(r) /\ skipDuplicates[r]) =>
            \A k \in 1..Len(skipped[r]) :
                \E row \in store :
                    StoredKey(row) = DuplicateKey(activities[r][skipped[r][k].index + 1])

\* ------------------------------------------------------------------------
\* Specification of a repeated commit: request 1 is handled, then the client
\* posts the same body again as request 2
\* ------------------------------------------------------------------------
\* 137-139: the second POST /batch arrives after the first was answered
SecondCall ==
    /\ pc[1] = "done"
    /\ pc[2] = "waiting"
    /\ pc' = [pc EXCEPT ![2] = "start"]
    /\ UNCHANGED <<matchVars, uiVars, extractVars, weekVars>>
    /\ UNCHANGED <<store, nextId, tz, activities, skipDuplicates, idx, existingSet,
                   created, failed, skipped, response, insertedId, storeAtStart,
                   insertCalls, dbErrors>>

\* batches of the repeated commit: titles with a space and a tab at the end
RepeatBatches ==
    RaceBatches \cup {OversizeBatch, <<C_a, C_aD1>>,
                      <<Cand(StrTitle(<<"A", " ">>), "f1", "")>>,
                      <<Cand(StrTitle(<<"a", "\t">>), "f1", "")>>}

InitRepeat ==
    /\ store \in RaceStores
    /\ nextId = 2
    /\ tz \in TimeZones
    /\ \E b \in RepeatBatches, sd \in BOOLEAN :
         /\ Len(b) >= MaxBatchSize => sd
         /\ activities = [r \in Reqs |-> b]
         /\ skipDuplicates = [r \in Reqs |-> IF r = 1 THEN sd ELSE TRUE]
    /\ pc = [r \in Reqs |-> IF r = 1 THEN "start" ELSE "waiting"]
    /\ idx = [r \in Reqs |-> 0]
    /\ existingSet = [r \in Reqs |-> {}]
    /\ created = [r \in Reqs |-> <<>>]
    /\ failed = [r \in Reqs |-> <<>>]
    /\ skipped = [r \in Reqs |-> <<>>]
    /\ response = [r \in Reqs |-> NoResponse]
    /\ insertedId = [r \in Reqs |-> 0]
    /\ storeAtStart = [r \in Reqs |-> store]
    /\ insertCalls = [r \in Reqs |-> {}]
    /\ dbErrors = [r \in Reqs |-> {}]
    /\ MatchIdle
    /\ UiIdle
    /\ ExtractIdle
    /\ WeekIdle

NextRepeat ==
    \/ \E r \in Reqs : BatchStep(r)
    \/ SecondCall

SpecRepeat == InitRepeat /\ [][NextRepeat]_vars

\* the first call created every item of the batch, and the second call,
\* made after it, was answered without any of its queries failing
Recommitted ==
    /\ Done201(1) /\ Done201(2)
    /\ dbErrors[2] = {}
    /\ Idx(created[1]) = {k - 1 : k \in 1..Len(activities[1])}
    /\ \A k \in 1..Len(created[1]) : created[1][k].id # 0

\* C21: committing the same batch a second time, after a first call that
\* created every item, adds no row to the store, creates nothing and
\* reports every item in skipped.
C21_RecommitSkipsAll ==
    Recommitted =>
        /\ NewRows(2) = {}
        /\ created[2] = <<>>
        /\ Idx(skipped[2]) = {k - 1 : k \in 1..Len(activities[2])}

\* a candidate whose focus_area_id or title is missing or empty
MissingField(a) ==
    \/ a.focus_area_id = ""
    \/ a.title.t = "missing"
    \/ (a.title.t = "str" /\ a.title.s = <<>>)

\* request r is at a candidate that is an object with a missing field, and
\* the handler takes its step for it
StepsOnMissingField(r) ==
    /\ pc[r] = "loop"
    /\ idx[r] < Len(activities[r])
    /\ Activity(r).kind = "obj"
    /\ MissingField(Activity(r))
    /\ <<pc[r], idx[r], failed[r], created[r], skipped[r], response[r]>>
         # <<pc'[r], idx'[r], failed'[r], created'[r], skipped'[r], response'[r]>>

\* C22: the step the handler takes for a candidate whose focus_area_id or
\* title is missing or empty appends a failed entry with the validation
\* reason, issues no INSERT, leaves the store and the duplicate-key set as
\* they are, and goes on to the next candidate.
C22_ValidationFailure ==
    [][\A r \in Reqs :
          StepsOnMissingField(r) =>
              /\ failed'[r] = Append(failed[r],
                     [index |-> idx[r], error |-> "focus_area_id and title are required"])
              /\ insertCalls'[r] = insertCalls[r]
              /\ store' = store
              /\ existingSet'[r] = existingSet[r]
              /\ created'[r] = created[r] /\ skipped'[r] = skipped[r]
              /\ idx'[r] = idx[r] + 1
              /\ pc'[r] = "loop"]_vars

\* a batch whose first candidate has no title was answered: index 0 is in
\* failed for the validation reason, no INSERT was issued for it, and the
\* candidate after it was created
C22_Witness ==
    /\ Done201(1)
    /\ Len(activities[1]) >= 2
    /\ MissingField(activities[1][1])
    /\ \E k \in 1..Len(failed[1]) :
          failed[1][k] = [index |-> 0, error |-> "focus_area_id and title are required"]
    /\ 0 \notin insertCalls[1]
    /\ 1 \in Idx(created[1])

\* ------------------------------------------------------------------------
\* Properties of the staged activities
\* ------------------------------------------------------------------------
\* the call was answered with the list of staged activities
Staged200 == xPc = "done" /\ xReply.status = 200

\* the match a staged activity carries
MatchOf(staged) ==
    [focus_area_id |-> staged.matched_focus_area_id,
     focus_area_name |-> staged.matched_focus_area_name,
     confidence |-> staged.confidence,
     needs_review |-> staged.needs_review,
     review_reason |-> staged.review_reason]

\* C23: on the spreadsheet route, when the row an element of the answer
\* stands for (rule 1 of the prompt: one element per row, in row order) has
\* a section header and the element names a focus area of its own, the match
\* of the staged activity is the match of the section header text.
C23_SectionHeaderPreferred ==
    (xRoute = "excel" /\ Staged200) =>
        \A k \in 1..Len(xReply.activities) :
            ( /\ k <= Len(xPreprocessed)
              /\ xPreprocessed[k].sectionHeader.text
              /\ Parsed[k].suggested_focus_area # <<>> )
            => \E fuse \in FuseOutputs(Available(xFocusAreas, xReq.conceptId),
                                       ExtractScoreLevels) :
                  MatchOf(xReply.activities[k])
                      = MatchFocusArea(xPreprocessed[k].sectionHeader.s, xFocusAreas,
                                       xReq.conceptId, fuse)

\* C24: the weeks of every staged activity are strictly increasing (and so
\* without duplicates), whatever the weeks array of the model's element is.
C24_WeeksStrictlyIncreasing ==
    Staged200 =>
        \A k \in 1..Len(xReply.activities) :
            \A i, j \in 1..Len(xReply.activities[k].weeks) :
                i < j => xReply.activities[k].weeks[i].n < xReply.activities[k].weeks[j].n

\* a value that is a number within 1..52 (numbers are kept in tenths)
NumberInWeekRange(w) == w.t = "num" /\ 10 <= w.n /\ w.n <= 520

\* the positions of the values of a list that are numbers within 1..52
ValidPositions(items) == {i \in 1..Len(items) : NumberInWeekRange(items[i])}

\* C25: a call whose answer parsed to an array of objects is answered with
\* the staged activities, whatever their weeks hold; every week of a staged
\* activity is a number within 1..52; the weeks are the values of the
\* element's weeks array that are numbers within 1..52, all of them and in
\* their order; a weeks field that is no array gives the empty list.
C25_WeeksFiltered ==
    /\ ( /\ xPc = "done"
         /\ xResponseText.defined /\ ~xResponseText.empty
         /\ xResponseText.json.array
         /\ \A k \in 1..Len(xResponseText.json.items) :
               xResponseText.json.items[k].k = "obj" )
       => xReply.status = 200 /\ Len(xReply.activities) = Len(xResponseText.json.items)
    /\ Staged200 =>
          \A k \in 1..Len(xReply.activities) :
              LET weeks == xReply.activities[k].weeks
                  given == Parsed[k].weeks
              IN /\ \A i \in 1..Len(weeks) : NumberInWeekRange(weeks[i])
                 /\ ~given.array => weeks = <<>>
                 /\ given.array =>
                       /\ Len(weeks) = Cardinality(ValidPositions(given.items))
                       /\ \A p \in ValidPositions(given.items) :
                             weeks[Cardinality({q \in ValidPositions(given.items) : q <= p})]
                                 = given.items[p]

\* the model gave weeks with 53, 0 and the text "2" among valid values: the
\* call was answered and the staged activity keeps 1, 52 and 1.5
C25_Witness ==
    /\ Staged200
    /\ \E k \in 1..Len(xReply.activities) :
          /\ Parsed[k] = ItemExact
          /\ xReply.activities[k].weeks = <<N(10), N(520), N(15)>>
    /\ \E k \in 1..Len(xReply.activities) :
          /\ ~Parsed[k].weeks.array
          /\ xReply.activities[k].weeks = <<>>

\* ------------------------------------------------------------------------
\* Properties of the matcher's result
\* ------------------------------------------------------------------------
\* the focus areas of the argument list that belong to the concept
OfConcept == {k \in 1..Len(mFocusAreas) : mFocusAreas[k].concept_id = mConceptId}

\* the result that names no focus area and asks for review
NullIdReview(result) ==
    result.focus_area_id = NoId /\ result.confidence = 0 /\ result.needs_review

\* C26: with a conceptId given, the id matchFocusArea returns is null or the
\* id of a focus area of the list whose concept is that concept; and when
\* the list has no focus area of that concept the result is the null-id
\* review result (confidence 0, needs_review true), whatever the name and
\* whatever the scorer would answer.
C26_CategoryFilter ==
    (mpc = "done" /\ mConceptId # NoId) =>
        /\ mResult.focus_area_id # NoId =>
              \E k \in OfConcept : mFocusAreas[k].id = mResult.focus_area_id
        /\ OfConcept = {} => NullIdReview(mResult)

\* a call with a concept whose only focus area of the suggested name belongs
\* to another concept, answered with the null-id review result; the list
\* holds a focus area of the concept in one call, none in another
C26_Witness ==
    /\ mpc = "done"
    /\ mConceptId = "c1"
    /\ mSuggested = <<"x">>
    /\ \E k \in 1..Len(mFocusAreas) :
          mFocusAreas[k].name = <<"x">> /\ mFocusAreas[k].concept_id = "c2"
    /\ OfConcept = {}
    /\ NullIdReview(mResult)
    /\ mResult.review_reason = "Inga fokusomraden tillgangliga"

\* ------------------------------------------------------------------------
\* Properties of the calendar-column map
\* ------------------------------------------------------------------------
\* the structure of the sheet has been detected
Structured == xRoute = "excel" /\ xSheet # NoSheet

\* the month header row: the first of the first 5 rows with a month name
\* cell; the week header row is the row after it
MonthHeaderIndex ==
    CHOOSE i \in 1..Min(5, Len(xReq.data)) :
        /\ i <= 5
        /\ \E c \in 1..Len(xReq.data[i]) : MonthNameCell(xReq.data[i][c])
        /\ \A j \in 1..(i - 1) :
              \A c \in 1..Len(xReq.data[j]) : ~MonthNameCell(xReq.data[j][c])

\* the columns (from 0) either header row has
HeaderColumns(monthCells, weekCells) ==
    0..(Max(Len(monthCells), Len(weekCells)) - 1)

\* the columns at or left of column c that hold a month name
MonthColumnsUpTo(monthCells, c) ==
    {j \in 0..c : j < Len(monthCells) /\ MonthNameCell(monthCells[j + 1])}

\* the most recent month at or left of column c
RecentMonth(monthCells, c) ==
    LET left == MonthColumnsUpTo(monthCells, c)
        j == CHOOSE j \in left : \A l \in left : l <= j
    IN MonthOf(monthCells[j + 1].s)

\* a week header cell that holds an integer in 1..52
HoldsIntegerWeek(cell) ==
    \/ cell.t = "num" /\ cell.n % 10 = 0 /\ cell.n \div 10 \in 1..52
    \/ /\ cell.t = "str" /\ cell.s # <<>>
       /\ \A k \in 1..Len(cell.s) : IsDigit(cell.s[k])
       /\ ParseInt(cell.s).n \in 1..52

\* a week header cell that is there and whose text begins (after white
\* space) with an integer in 1..52: 5, "5", 6.5, "7 v"
ReadsAsWeek(cell) ==
    /\ cell.t \notin {"undefined", "null"}
    /\ ~ParseInt(Str(cell)).nan
    /\ ParseInt(Str(cell)).n \in 1..52

\* the entries of the map for column c
Bindings(c) ==
    {k \in 1..Len(xSheet.calendarColumns) : xSheet.calendarColumns[k].col = c}

\* what the map holds for its bound columns
BindingsSound(monthCells, weekCells) ==
    \A k \in 1..Len(xSheet.calendarColumns) :
        LET b == xSheet.calendarColumns[k]
        IN /\ Cardinality(Bindings(b.col)) = 1
           /\ MonthColumnsUpTo(monthCells, b.col) # {}
           /\ b.month = RecentMonth(monthCells, b.col)
           /\ b.month \in 1..12
           /\ b.week = ParseInt(Str(At(weekCells, b.col))).n
           /\ b.week \in 1..52
           /\ \A j \in 0..(b.col - 1) :
                 MonthColumnsUpTo(monthCells, j) = {} => Bindings(j) = {}

C28_CallTerminates == <>(xPc = "done")

\* C29: every result of matchFocusArea has a confidence within [0, 1]; a
\* result that needs no review has a focus area id and a confidence of at
\* least 0.8; a result without a focus area id has confidence 0 and needs
\* review.
C29_ResultShape ==
    mpc = "done" =>
        /\ mResult.confidence \in 0..1000
        /\ ~mResult.needs_review =>
              /\ mResult.focus_area_id # NoId
              /\ mResult.confidence >= ConfidenceThreshold
        /\ mResult.focus_area_id = NoId =>
              /\ mResult.confidence = 0
              /\ mResult.needs_review

\* an approximate match right at the threshold is accepted without review
C29_Witness ==
    /\ mpc = "done"
    /\ ~BlankSuggested
    /\ mFuse # <<>>
    /\ ExactMatchIndex(Available(mFocusAreas, mConceptId), mSuggested) = 0
    /\ mResult.confidence = ConfidenceThreshold
    /\ ~mResult.needs_review
    /\ mResult.focus_area_id = mFuse[1].item.id

\* C30: every date the preprocessing synthesizes is a calendar date of the
\* effective year: its month is the month of a calendar column and its day
\* is a day that month has in that year.
C30_RealCalendarDates ==
    Preprocessed =>
        LET year == xSheet.effectiveYear
            months == {xSheet.calendarColumns[c].month :
                          c \in 1..Len(xSheet.calendarColumns)}
            realDates == UNION {{DateStr(year, m, d) : d \in 1..DaysInMonth(year, m)} :
                                   m \in months}
        IN \A k \in 1..Len(xPreprocessed) :
              \A j \in 1..Len(xPreprocessed[k].dates) :
                  xPreprocessed[k].dates[j].date \in realDates

====
